---- MODULE Spec2Model ----
(***************************************************************************)
(* Behaviour-tree model of mod11-design-project: Node, Tree, Collection    *)
(* and Verification (module model.tree), as exercised by                   *)
(* src/tests/model/test_tree.py.                                           *)
(*                                                                         *)
(* A Node is a record [title, attributes, children]; its id is the key it  *)
(* is stored under in Tree.nodes.  attributes is a map whose keys are      *)
(* among "role" and "properties"; attributes["properties"] is itself a map.*)
(* A Tree is a record [name, root, nodes]; root = "" means "no root".      *)
(* A Collection is a map category -> filename -> Tree.                     *)
(* nodeobj is a Node object on its own (with its id), doc a parsed JSON        *)
(* document, run the call of a traversal that is in progress, scene the    *)
(* graphics items of the view and disk the directory of tree files.        *)
(***************************************************************************)
EXTENDS Integers, Sequences, FiniteSets, TLC

VARIABLES tree, other, coll, idgen, steps, last, nodeobj, doc, run, scene, disk

vars == <<tree, other, coll, idgen, steps, last, nodeobj, doc, run, scene, disk>>

\* ------------------------------------------------------------------ bounds
\* number of operations applied in one behaviour
MaxSteps == 2
\* longest children list the editing steps build
MaxChildren == 2
\* longest nodes array of a tree document
MaxNodeDocs == 2

\* ------------------------------------------------------------ small helpers
EmptyMap == <<>>

Range(s) == {s[i] : i \in 1..Len(s)}

InSeq(x, s) == \E i \in 1..Len(s) : s[i] = x

\* s without every occurrence of x
RECURSIVE SeqWithout(_, _)
SeqWithout(s, x) ==
    IF s = <<>> THEN <<>>
    ELSE IF Head(s) = x THEN SeqWithout(Tail(s), x)
    ELSE <<Head(s)>> \o SeqWithout(Tail(s), x)

\* a map without key k
MapWithout(m, k) == [x \in (DOMAIN m) \ {k} |-> m[x]]

\* a map with key k set to v (dict[k] = v)
MapWith(m, k, v) == [x \in (DOMAIN m) \cup {k} |-> IF x = k THEN v ELSE m[x]]

\* the elements of a finite set as a list (iteration over a dict's keys)
RECURSIVE SetToSeq(_)
SetToSeq(S) ==
    IF S = {} THEN <<>>
    ELSE LET x == CHOOSE y \in S : TRUE IN <<x>> \o SetToSeq(S \ {x})

\* -------------------------------------------------------------------- Node
\* Node(title, id, attributes, children); the id is the key in Tree.nodes
Node(title, attributes, children) ==
    [title |-> title, attributes |-> attributes, children |-> children]

\* Node.add_child(id)
add_child(node, id) == [node EXCEPT !.children = Append(@, id)]

\* Node.remove_child(id): the id leaves the children list
remove_child(node, id) == [node EXCEPT !.children = SeqWithout(@, id)]

\* Node.add_attribute(key, value)
add_attribute(node, key, value) == [node EXCEPT !.attributes = MapWith(@, key, value)]

\* Node.remove_attribute(key)
remove_attribute(node, key) == [node EXCEPT !.attributes = MapWithout(@, key)]

\* Node.generate_id(): the k-th generated id.  The generator draws 16 random
\* characters; a generated id is modelled as a name never handed out before.
generate_id(k) == "g" \o ToString(k)

\* -------------------------------------------------------------------- Tree
\* Tree(name, root, nodes)
Tree(name, root, nodes) == [name |-> name, root |-> root, nodes |-> nodes]

\* Tree.add_node(node): insert or overwrite by id
add_node(t, id, node) == [t EXCEPT !.nodes = MapWith(@, id, node)]

\* tree.add_node(node) followed by tree.nodes.get(p).add_child(node.id)
WithNewChild(t, p, id, node) ==
    [add_node(t, id, node) EXCEPT !.nodes[p] = add_child(@, id)]

\* remove_node_by_id that leaves root as it is
remove_node_by_id_keeps_root(t, id) ==
    IF id \in DOMAIN t.nodes
    THEN [ok |-> TRUE, tree |-> [t EXCEPT !.nodes = MapWithout(@, id)]]
    ELSE [ok |-> FALSE, tree |-> t]

\* Tree.remove_node_by_id(id): [ok, tree]
remove_node_by_id(t, id) ==
    IF id \in DOMAIN t.nodes
    THEN [ok |-> TRUE,
          tree |-> [t EXCEPT !.nodes = MapWithout(@, id),
                             !.root = IF @ = id THEN "" ELSE @]]
    ELSE [ok |-> FALSE, tree |-> t]

\* Tree.remove_node(node): the node is looked up by its id
remove_node(t, nd) == remove_node_by_id(t, nd.id)

\* Tree.remove_node_and_children_by_id(id): [ok, tree].  The node is taken
\* out first and its children are then removed one after the other; the
\* first child that does not resolve stops the recursion with False, and
\* what was removed up to there stays removed.
RECURSIVE remove_node_and_children_by_id(_, _)
RECURSIVE remove_children_by_id(_, _)
\* a removal that looks up the children of the node before it takes the
\* node out, and leaves the node in when one of them does not resolve
remove_node_after_children_resolve(t, id) ==
    IF id \notin DOMAIN t.nodes
    THEN [ok |-> FALSE, tree |-> t]
    ELSE IF \E i \in 1..Len(t.nodes[id].children) :
                t.nodes[id].children[i] \notin DOMAIN t.nodes
    THEN [ok |-> FALSE, tree |-> t]
    ELSE remove_children_by_id(remove_node_by_id(t, id).tree, t.nodes[id].children)

remove_node_and_children_by_id(t, id) ==
    IF id \notin DOMAIN t.nodes
    THEN [ok |-> FALSE, tree |-> t]
    ELSE remove_children_by_id(remove_node_by_id(t, id).tree, t.nodes[id].children)

remove_children_by_id(t, cs) ==
    IF cs = <<>> THEN [ok |-> TRUE, tree |-> t]
    ELSE LET r == remove_node_and_children_by_id(t, Head(cs))
         IN  IF r.ok THEN remove_children_by_id(r.tree, Tail(cs)) ELSE r

\* a walk that collects a child id before looking it up, so that an id which
\* resolves to no node ends up in the result
RECURSIVE walk_collects_dangling(_, _, _)
walk_collects_dangling(nodes, todo, acc) ==
    IF todo = <<>> THEN acc
    ELSE LET id == Head(todo)
         IN  IF InSeq(id, acc)
             THEN walk_collects_dangling(nodes, Tail(todo), acc)
             ELSE IF id \notin DOMAIN nodes
             THEN walk_collects_dangling(nodes, Tail(todo), Append(acc, id))
             ELSE walk_collects_dangling(nodes, nodes[id].children \o Tail(todo),
                                         Append(acc, id))

\* Verification.walk_tree(tree, start): the ids of the nodes reachable from
\* start, start first, each once, in depth-first order; a child id that
\* resolves to no node, or to a node already collected, is skipped.
RECURSIVE walk(_, _, _)
walk(nodes, todo, acc) ==
    IF todo = <<>> THEN acc
    ELSE LET id == Head(todo)
         IN  IF id \notin DOMAIN nodes \/ InSeq(id, acc)
             THEN walk(nodes, Tail(todo), acc)
             ELSE walk(nodes, nodes[id].children \o Tail(todo), Append(acc, id))

walk_tree(t, start) == walk(t.nodes, <<start>>, <<>>)

\* the ids strictly below id: what a walk from id collects after id itself
below(t, id) == Range(Tail(walk_tree(t, id)))

\* remove_subtree that leaves the children list of id as it is
remove_subtree_leaves_children(t, id) ==
    IF id \notin DOMAIN t.nodes THEN t
    ELSE [t EXCEPT !.nodes = [x \in (DOMAIN t.nodes) \ below(t, id) |-> t.nodes[x]]]

\* Tree.remove_subtree(id): every node strictly below id goes, id keeps its
\* entry with an empty children list; nothing happens when id is absent
remove_subtree(t, id) ==
    IF id \notin DOMAIN t.nodes THEN t
    ELSE LET gone == below(t, id)
         IN  [t EXCEPT
                !.nodes = [x \in (DOMAIN t.nodes) \ gone |->
                             IF x = id THEN [t.nodes[x] EXCEPT !.children = <<>>]
                             ELSE t.nodes[x]]]

\* add_subtree that copies every node of other_tree
add_subtree_copies_all(t, o, parent_id, child_id) ==
    IF parent_id \notin DOMAIN t.nodes \/ child_id \notin DOMAIN o.nodes THEN t
    ELSE LET ids == DOMAIN o.nodes
             copied == [x \in (DOMAIN t.nodes) \cup ids |->
                          IF x \in ids THEN o.nodes[x] ELSE t.nodes[x]]
         IN  [t EXCEPT !.nodes = [copied EXCEPT ![parent_id] = add_child(@, child_id)]]

\* Tree.add_subtree(other_tree, parent_id, child_id): the nodes of
\* other_tree's subtree at child_id are added under their own ids and
\* child_id is appended to parent_id's children
add_subtree(t, o, parent_id, child_id) ==
    IF parent_id \notin DOMAIN t.nodes \/ child_id \notin DOMAIN o.nodes THEN t
    ELSE LET ids == Range(walk_tree(o, child_id))
             copied == [x \in (DOMAIN t.nodes) \cup ids |->
                          IF x \in ids THEN o.nodes[x] ELSE t.nodes[x]]
         IN  [t EXCEPT !.nodes = [copied EXCEPT ![parent_id] = add_child(@, child_id)]]

\* position of x in the duplicate-free sequence s
IndexOf(s, x) == CHOOSE i \in 1..Len(s) : s[i] = x

\* update_subtree that copies the source nodes under the ids they have in
\* other_tree, as add_subtree does
update_subtree_keeps_ids(t, o, target_id, source_id, g) ==
    IF target_id \notin DOMAIN t.nodes \/ source_id \notin DOMAIN o.nodes
    THEN [tree |-> t, idgen |-> g]
    ELSE LET pruned == remove_subtree(t, target_id)
             ids == Range(walk_tree(o, source_id))
             nodes == [x \in (DOMAIN pruned.nodes) \cup ids |->
                         IF x \in ids THEN o.nodes[x]
                         ELSE IF x = target_id
                         THEN [pruned.nodes[x] EXCEPT !.children = <<source_id>>]
                         ELSE pruned.nodes[x]]
         IN  [tree |-> [pruned EXCEPT !.nodes = nodes], idgen |-> g]

\* update_subtree that looks up the target only, and prunes it before it
\* finds that there is nothing to copy
update_subtree_prunes_first(t, o, target_id, source_id, g) ==
    IF target_id \notin DOMAIN t.nodes THEN [tree |-> t, idgen |-> g]
    ELSE [tree |-> remove_subtree(t, target_id), idgen |-> g]

\* update_subtree that keeps what is below the target and appends the copy
\* to the children of the target
update_subtree_keeps_subtree(t, o, target_id, source_id, g) ==
    IF target_id \notin DOMAIN t.nodes \/ source_id \notin DOMAIN o.nodes
    THEN [tree |-> t, idgen |-> g]
    ELSE LET ids == walk_tree(o, source_id)
             new_id(x) == generate_id(g + IndexOf(ids, x))
             new_ids == {new_id(x) : x \in Range(ids)}
             old_of(n) == CHOOSE x \in Range(ids) : new_id(x) = n
             remap(cs) == [i \in 1..Len(cs) |->
                             IF InSeq(cs[i], ids) THEN new_id(cs[i]) ELSE cs[i]]
             nodes == [x \in (DOMAIN t.nodes) \cup new_ids |->
                         IF x \in new_ids
                         THEN [o.nodes[old_of(x)] EXCEPT !.children = remap(@)]
                         ELSE IF x = target_id
                         THEN add_child(t.nodes[x], new_id(source_id))
                         ELSE t.nodes[x]]
         IN  [tree |-> [t EXCEPT !.nodes = nodes], idgen |-> g + Len(ids)]

\* Tree.update_subtree(other_tree, target_id, source_id), with g ids generated
\* so far: [tree, idgen].  The node target_id stays as it is, everything
\* below it is removed, and a copy of other_tree's subtree at source_id, every
\* node of it under a newly generated id, becomes its only child.
update_subtree(t, o, target_id, source_id, g) ==
    IF target_id \notin DOMAIN t.nodes \/ source_id \notin DOMAIN o.nodes
    THEN [tree |-> t, idgen |-> g]
    ELSE LET pruned == remove_subtree(t, target_id)
             ids == walk_tree(o, source_id)
             new_id(x) == generate_id(g + IndexOf(ids, x))
             new_ids == {new_id(x) : x \in Range(ids)}
             old_of(n) == CHOOSE x \in Range(ids) : new_id(x) = n
             remap(cs) == [i \in 1..Len(cs) |->
                             IF InSeq(cs[i], ids) THEN new_id(cs[i]) ELSE cs[i]]
             nodes == [x \in (DOMAIN pruned.nodes) \cup new_ids |->
                         IF x \in new_ids
                         THEN [o.nodes[old_of(x)] EXCEPT !.children = remap(@)]
                         ELSE IF x = target_id
                         THEN [pruned.nodes[x] EXCEPT !.children = <<new_id(source_id)>>]
                         ELSE pruned.nodes[x]]
         IN  [tree |-> [pruned EXCEPT !.nodes = nodes], idgen |-> g + Len(ids)]

\* Node.properties()
properties(node) ==
    IF "properties" \in DOMAIN node.attributes THEN node.attributes["properties"]
    ELSE EmptyMap

\* Node.add_property(key, value)
add_property(node, key, value) ==
    [node EXCEPT !.attributes = MapWith(@, "properties", MapWith(properties(node), key, value))]

\* remove_property that sets up the nested map when there is none
remove_property_creates_map(node, key) ==
    [node EXCEPT !.attributes = MapWith(@, "properties", MapWithout(properties(node), key))]

\* Node.remove_property(key): the key leaves the nested map, which stays
remove_property(node, key) ==
    IF "properties" \in DOMAIN node.attributes
    THEN [node EXCEPT !.attributes["properties"] = MapWithout(@, key)]
    ELSE node

\* propagate_role that marks the node id as well
propagate_role_from_start(t, id, role) ==
    IF id \notin DOMAIN t.nodes THEN t
    ELSE [t EXCEPT !.nodes = [x \in DOMAIN t.nodes |->
            IF InSeq(x, walk_tree(t, id)) THEN add_property(t.nodes[x], "ROLE", role)
            ELSE t.nodes[x]]]

\* Tree.propagate_role(id, role): ROLE property on every node below id
propagate_role(t, id, role) ==
    IF id \notin DOMAIN t.nodes THEN t
    ELSE [t EXCEPT !.nodes = [x \in DOMAIN t.nodes |->
            IF x \in below(t, id) THEN add_property(t.nodes[x], "ROLE", role)
            ELSE t.nodes[x]]]

\* remove_propagation that drops the properties of the nodes below id
remove_propagation_drops_properties(t, id) ==
    IF id \notin DOMAIN t.nodes THEN t
    ELSE [t EXCEPT !.nodes = [x \in DOMAIN t.nodes |->
            IF x \in below(t, id)
            THEN [t.nodes[x] EXCEPT !.attributes = MapWithout(@, "properties")]
            ELSE t.nodes[x]]]

\* Tree.remove_propagation(id): ROLE property off every node below id
remove_propagation(t, id) ==
    IF id \notin DOMAIN t.nodes THEN t
    ELSE [t EXCEPT !.nodes = [x \in DOMAIN t.nodes |->
            IF x \in below(t, id) THEN remove_property(t.nodes[x], "ROLE")
            ELSE t.nodes[x]]]

\* Tree.find_parent_node_if_exists(node): the id of the node that lists id
\* as a child, "" (None) when there is none
find_parent_node_if_exists(t, id) ==
    IF \E p \in DOMAIN t.nodes : InSeq(id, t.nodes[p].children)
    THEN CHOOSE p \in DOMAIN t.nodes : InSeq(id, t.nodes[p].children)
    ELSE ""

\* the upward walk of find_role_subtree_node_above_node; visited bounds it
RECURSIVE role_node_above(_, _, _)
role_node_above(t, id, visited) ==
    IF id \notin DOMAIN t.nodes \/ id \in visited THEN ""
    ELSE IF "role" \in DOMAIN t.nodes[id].attributes THEN id
    ELSE role_node_above(t, find_parent_node_if_exists(t, id), visited \cup {id})

\* Tree.find_role_subtree_node_above_node(node): the id of the first node at
\* or above id that carries a role attribute, "" (None) when there is none
find_role_subtree_node_above_node(t, id) == role_node_above(t, id, {})

\* find_role_subtree_nodes_if_exist that returns the first child of every
\* node whose role attribute is role_name
find_role_subtree_tops(t, role_name) ==
    SetToSeq({t.nodes[x].children[1] : x \in
                {y \in DOMAIN t.nodes :
                    /\ "role" \in DOMAIN t.nodes[y].attributes
                    /\ t.nodes[y].attributes["role"] = role_name
                    /\ t.nodes[y].children # <<>>}})

\* Tree.find_role_subtree_nodes_if_exist(role_name): the nodes whose role
\* attribute is role_name
find_role_subtree_nodes_if_exist(t, role_name) ==
    SetToSeq({x \in DOMAIN t.nodes :
                /\ "role" \in DOMAIN t.nodes[x].attributes
                /\ t.nodes[x].attributes["role"] = role_name})

\* does the node carry a role attribute
has_role(t, x) == "role" \in DOMAIN t.nodes[x].attributes

\* Tree.find_role_subtree_nodes_below_node(node): the nodes with a role
\* attribute that a walk from the node collects; a child id that resolves to
\* no node is skipped
find_role_subtree_nodes_below_node(t, id) ==
    SelectSeq(walk_tree(t, id), LAMBDA x : has_role(t, x))

\* ------------------------------------------------- the traversals, step by step
\* one iteration of the walk: the next id of the work list is dropped when it
\* resolves to no node or has been collected, and is collected otherwise,
\* its children going to the front of the work list
walk_step(nodes, st) ==
    LET id == Head(st.todo)
    IN  IF id \notin DOMAIN nodes \/ InSeq(id, st.seen)
        THEN [st EXCEPT !.todo = Tail(@)]
        ELSE [st EXCEPT !.todo = nodes[id].children \o Tail(@),
                        !.seen = Append(@, id)]

\* one call of remove_node_and_children_by_id in the recursion: the next
\* pending id either resolves to no node, which ends the whole call with
\* False, or is removed, its children becoming the next pending ids
remove_step(t, st) ==
    LET id == Head(st.todo)
    IN  IF id \notin DOMAIN t.nodes
        THEN [tree |-> t, st |-> [st EXCEPT !.done = TRUE, !.ok = FALSE]]
        ELSE [tree |-> remove_node_by_id(t, id).tree,
              st |-> [st EXCEPT !.todo = t.nodes[id].children \o Tail(@)]]

\* an upward step that does not look at the nodes it has been at
up_step_ignores_visited(t, st) ==
    LET id == st.todo[1]
    IN  IF id \notin DOMAIN t.nodes
        THEN [st EXCEPT !.done = TRUE, !.found = ""]
        ELSE IF has_role(t, id) THEN [st EXCEPT !.done = TRUE, !.found = id]
        ELSE [st EXCEPT !.todo = <<find_parent_node_if_exists(t, id)>>,
                        !.visited = @ \cup {id}]

\* one step of find_role_subtree_node_above_node: the walk ends without a
\* result at an id that resolves to no node or that it has been at before,
\* ends with the node when the node carries a role, and goes to the parent
\* otherwise
up_step(t, st) ==
    LET id == st.todo[1]
    IN  IF id \notin DOMAIN t.nodes \/ id \in st.visited
        THEN [st EXCEPT !.done = TRUE, !.found = ""]
        ELSE IF has_role(t, id) THEN [st EXCEPT !.done = TRUE, !.found = id]
        ELSE [st EXCEPT !.todo = <<find_parent_node_if_exists(t, id)>>,
                        !.visited = @ \cup {id}]

\* one step of the depth-first search of contains_cycles.  The work list
\* holds the calls that are still to be made ("visit") and the returns from
\* the calls that have been entered ("leave").
cycles_step(nodes, st) ==
    LET item == Head(st.stack)
        id == item.id
    IN  IF item.k = "leave"
        THEN [st EXCEPT !.stack = Tail(@), !.path = @ \ {id}, !.visited = @ \cup {id}]
        ELSE IF id \notin DOMAIN nodes THEN [st EXCEPT !.stack = Tail(@)]
        ELSE IF id \in st.path
        THEN [st EXCEPT !.stack = Tail(@), !.ret = Append(@, id)]
        ELSE IF id \in st.visited THEN [st EXCEPT !.stack = Tail(@)]
        ELSE [st EXCEPT
                !.stack = [i \in 1..Len(nodes[id].children) |->
                             [k |-> "visit", id |-> nodes[id].children[i]]]
                          \o <<[k |-> "leave", id |-> id]>> \o Tail(@),
                !.path = @ \cup {id}]

\* ---------------------------------------------------------------- documents
\* A parsed JSON value carries its type t and, in a field of its own, the
\* Python value: s for a str, n for an int, b for a bool, a for a list, o
\* for a dict (the map from its keys to JSON values).  A document is the map
\* of its top-level object.
JString(x) == [t |-> "string", s |-> x]
JNumber(x) == [t |-> "number", n |-> x]
JTrue == [t |-> "boolean", b |-> TRUE]
JArray(x) == [t |-> "array", a |-> x]
JObject(x) == [t |-> "object", o |-> x]

\* isinstance(j, str), and a list whose elements are all str
is_string(j) == j.t = "string"
is_string_list(j) == j.t = "array" /\ \A i \in 1..Len(j.a) : is_string(j.a[i])

\* the outcome of a parse that raised InvalidTreeJsonFormatException
InvalidNode == [ok |-> FALSE, id |-> "", node |-> Node("", EmptyMap, <<>>)]

\* Node.from_json(d): [ok, id, node]
Node_from_json(d) ==
    IF "id" \notin DOMAIN d \/ "title" \notin DOMAIN d THEN InvalidNode
    ELSE IF ~is_string(d["id"]) \/ ~is_string(d["title"]) THEN InvalidNode
    ELSE IF "children" \in DOMAIN d /\ ~is_string_list(d["children"]) THEN InvalidNode
    ELSE [ok |-> TRUE,
          id |-> d["id"].s,
          node |-> Node(d["title"].s,
                        IF "attributes" \in DOMAIN d THEN d["attributes"].o ELSE EmptyMap,
                        IF "children" \in DOMAIN d
                        THEN [i \in 1..Len(d["children"].a) |-> d["children"].a[i].s]
                        ELSE <<>>)]

\* create_json that writes the attributes and the children of every node
Node_create_json_all_keys(id, node) ==
    [k \in {"id", "title", "attributes", "children"} |->
        CASE k = "id" -> JString(id)
          [] k = "title" -> JString(node.title)
          [] k = "attributes" -> JObject(node.attributes)
          [] k = "children" -> JArray([i \in 1..Len(node.children) |-> JString(node.children[i])])]

\* Node.create_json(): id and title, attributes and children when they are
\* not empty
Node_create_json(id, node) ==
    LET base == [k \in {"id", "title"} |->
                    IF k = "id" THEN JString(id) ELSE JString(node.title)]
        with_attributes ==
            IF node.attributes # EmptyMap
            THEN MapWith(base, "attributes", JObject(node.attributes))
            ELSE base
    IN  IF node.children # <<>>
        THEN MapWith(with_attributes, "children",
                     JArray([i \in 1..Len(node.children) |-> JString(node.children[i])]))
        ELSE with_attributes

\* a Tree as it is parsed from a document: with its title, and with the
\* order in which the ids were put into the nodes dict
InvalidTree == [ok |-> FALSE,
                tree |-> [name |-> "", title |-> "", root |-> "", nodes |-> EmptyMap,
                          order |-> <<>>]]

\* the node entries of a document, one after the other, into the nodes dict:
\* an id that comes again keeps its place and gets the later node
RECURSIVE parse_nodes(_, _)
parse_nodes(entries, acc) ==
    IF entries = <<>> THEN acc
    ELSE LET r == Node_from_json(Head(entries).o)
         IN  IF ~r.ok THEN [acc EXCEPT !.ok = FALSE]
             ELSE parse_nodes(Tail(entries),
                              [acc EXCEPT !.nodes = MapWith(@, r.id, r.node),
                                          !.order = IF InSeq(r.id, @) THEN @
                                                    ELSE Append(@, r.id)])

\* from_json that reads the first entry of trees, however many there are
Tree_from_json_first_tree(d) ==
    IF "data" \notin DOMAIN d THEN InvalidTree
    ELSE LET data == d["data"].o
         IN  IF "name" \notin DOMAIN data \/ "title" \notin DOMAIN data THEN InvalidTree
             ELSE IF ~is_string(data["name"]) \/ ~is_string(data["title"]) THEN InvalidTree
             ELSE IF "trees" \notin DOMAIN data THEN InvalidTree
             ELSE IF Len(data["trees"].a) = 0 THEN InvalidTree
             ELSE IF data["trees"].a[1].t # "object" THEN InvalidTree
             ELSE LET entry == data["trees"].a[1].o
                  IN  IF "nodes" \notin DOMAIN entry \/ "root" \notin DOMAIN entry
                      THEN InvalidTree
                      ELSE IF entry["nodes"].a = <<>> \/ ~is_string(entry["root"])
                      THEN InvalidTree
                      ELSE LET r == parse_nodes(entry["nodes"].a,
                                                [ok |-> TRUE, nodes |-> EmptyMap,
                                                 order |-> <<>>])
                           IN  IF ~r.ok THEN InvalidTree
                               ELSE [ok |-> TRUE,
                                     tree |-> [name |-> data["name"].s,
                                               title |-> data["title"].s,
                                               root |-> entry["root"].s,
                                               nodes |-> r.nodes,
                                               order |-> r.order]]

\* Tree.from_json(d): [ok, tree]
Tree_from_json(d) ==
    IF "data" \notin DOMAIN d THEN InvalidTree
    ELSE LET data == d["data"].o
         IN  IF "name" \notin DOMAIN data \/ "title" \notin DOMAIN data THEN InvalidTree
             ELSE IF ~is_string(data["name"]) \/ ~is_string(data["title"]) THEN InvalidTree
             ELSE IF "trees" \notin DOMAIN data THEN InvalidTree
             ELSE IF Len(data["trees"].a) # 1 THEN InvalidTree
             ELSE IF data["trees"].a[1].t # "object" THEN InvalidTree
             ELSE LET entry == data["trees"].a[1].o
                  IN  IF "nodes" \notin DOMAIN entry \/ "root" \notin DOMAIN entry
                      THEN InvalidTree
                      ELSE IF entry["nodes"].a = <<>> \/ ~is_string(entry["root"])
                      THEN InvalidTree
                      ELSE LET r == parse_nodes(entry["nodes"].a,
                                                [ok |-> TRUE, nodes |-> EmptyMap,
                                                 order |-> <<>>])
                           IN  IF ~r.ok THEN InvalidTree
                               ELSE [ok |-> TRUE,
                                     tree |-> [name |-> data["name"].s,
                                               title |-> data["title"].s,
                                               root |-> entry["root"].s,
                                               nodes |-> r.nodes,
                                               order |-> r.order]]

\* Tree.create_json(): name, title and one entry in trees, with the nodes in
\* the order of the nodes dict and the root
Tree_create_json(t) ==
    LET nodes == [i \in 1..Len(t.order) |->
                    JObject(Node_create_json(t.order[i], t.nodes[t.order[i]]))]
        entry == [k \in {"nodes", "root"} |->
                    IF k = "nodes" THEN JArray(nodes) ELSE JString(t.root)]
        data == [k \in {"name", "title", "trees"} |->
                    CASE k = "name" -> JString(t.name)
                      [] k = "title" -> JString(t.title)
                      [] k = "trees" -> JArray(<<JObject(entry)>>)]
    IN  [k \in {"data"} |-> JObject(data)]

\* ------------------------------------------------------------ Verification
\* a depth-first search that reports a node whenever it is met again, on
\* the current path or not
RECURSIVE cycles_visit_flags_seen(_, _, _, _)
RECURSIVE cycles_children_flags_seen(_, _, _, _)
cycles_visit_flags_seen(nodes, id, path, st) ==
    IF id \notin DOMAIN nodes THEN st
    ELSE IF id \in path \/ id \in st.seen
    THEN [st EXCEPT !.violations = Append(@, id)]
    ELSE LET r == cycles_children_flags_seen(nodes, nodes[id].children, path \cup {id}, st)
         IN  [r EXCEPT !.seen = @ \cup {id}]

cycles_children_flags_seen(nodes, cs, path, st) ==
    IF cs = <<>> THEN st
    ELSE cycles_children_flags_seen(nodes, Tail(cs), path,
                                    cycles_visit_flags_seen(nodes, Head(cs), path, st))

\* the depth-first search of contains_cycles: path holds the nodes between
\* the root and id, st.seen the nodes whose subtree has been searched.  A
\* child id that resolves to no node is skipped, a child on the path is a
\* violation, a child in seen is not searched again.
RECURSIVE cycles_visit(_, _, _, _)
RECURSIVE cycles_children(_, _, _, _)
cycles_visit(nodes, id, path, st) ==
    IF id \notin DOMAIN nodes THEN st
    ELSE IF id \in path THEN [st EXCEPT !.violations = Append(@, id)]
    ELSE IF id \in st.seen THEN st
    ELSE LET r == cycles_children(nodes, nodes[id].children, path \cup {id}, st)
         IN  [r EXCEPT !.seen = @ \cup {id}]

cycles_children(nodes, cs, path, st) ==
    IF cs = <<>> THEN st
    ELSE cycles_children(nodes, Tail(cs), path, cycles_visit(nodes, Head(cs), path, st))

\* Verification.contains_cycles(tree, seen): the list of violations
contains_cycles(t, seen) ==
    cycles_visit(t.nodes, t.root, {}, [seen |-> seen, violations |-> <<>>]).violations

\* has_unconnected_nodes that takes a node for connected as soon as some
\* node lists it as a child
has_unconnected_nodes_any_parent(t) ==
    SetToSeq({x \in DOMAIN t.nodes :
                /\ x # t.root
                /\ \A y \in DOMAIN t.nodes : ~InSeq(x, t.nodes[y].children)})

\* Verification.has_unconnected_nodes(tree): one violation, here the node's
\* id, for every node of tree.nodes that a walk from the root does not reach
has_unconnected_nodes(t) ==
    SetToSeq({x \in DOMAIN t.nodes : ~InSeq(x, walk_tree(t, t.root))})

\* -------------------------------------------------------------- Collection
\* NodeTypes: the decorators, with exactly one child, and the composites
\* with the least number of children they take
Decorators == {"Repeater"}
Composites == [title \in {"Sequence", "ParallelSequence"} |->
                 IF title = "ParallelSequence" THEN 2 ELSE 1]

\* the violations of one kind, one for every id of the list
Violations(kind, ids) == [i \in 1..Len(ids) |-> [kind |-> kind, node |-> ids[i]]]

\* root validity: no root id, or a root id that is no key of tree.nodes
invalid_root(t) ==
    IF t.root = "" \/ t.root \notin DOMAIN t.nodes
    THEN <<[kind |-> "root", node |-> t.root]>>
    ELSE <<>>

\* the number of children a node of this title may not have
wrong_arity(title, n) ==
    \/ title \in Decorators /\ n # 1
    \/ title \in DOMAIN Composites /\ n < Composites[title]

\* an arity check that takes a decorator with one child or more
invalid_arity_at_least_one(t) ==
    Violations("arity",
               SetToSeq({x \in DOMAIN t.nodes :
                           \/ t.nodes[x].title \in Decorators /\ Len(t.nodes[x].children) < 1
                           \/ /\ t.nodes[x].title \in DOMAIN Composites
                              /\ Len(t.nodes[x].children) < Composites[t.nodes[x].title]}))

\* arity: one violation for every decorator without exactly one child and
\* every composite with fewer children than it takes
invalid_arity(t) ==
    Violations("arity",
               SetToSeq({x \in DOMAIN t.nodes :
                           wrong_arity(t.nodes[x].title, Len(t.nodes[x].children))}))

\* title and presence of properties of the nodes below and at start, in the
\* order of the walk
subtree_titles(t, start) ==
    LET w == walk_tree(t, start)
    IN  [i \in 1..Len(w) |-> <<t.nodes[w[i]].title,
                               "properties" \in DOMAIN t.nodes[w[i]].attributes>>]

\* the trees of category roles with this name
role_trees(c, role_name) ==
    IF "roles" \notin DOMAIN c THEN {}
    ELSE {c["roles"][f] : f \in {g \in DOMAIN c["roles"] : c["roles"][g].name = role_name}}

\* role inheritance: a node with a role attribute names a tree of category
\* roles, and the subtree at its first child matches that tree
role_mismatch(c, t, x) ==
    LET rs == role_trees(c, t.nodes[x].attributes["role"])
    IN  \/ rs = {}
        \/ t.nodes[x].children = <<>>
        \/ \A r \in rs :
              subtree_titles(t, t.nodes[x].children[1]) # subtree_titles(r, r.root)

invalid_role_inheritance(c, t) ==
    Violations("role",
               SetToSeq({x \in DOMAIN t.nodes :
                           "role" \in DOMAIN t.nodes[x].attributes /\ role_mismatch(c, t, x)}))

\* verify_tree without the check of the root
verify_tree_from_cycles(c, t, category) ==
    Violations("cycle", contains_cycles(t, {}))
        \o Violations("unconnected", has_unconnected_nodes(t))
        \o invalid_arity(t)
        \o invalid_role_inheritance(c, t)

\* Collection.verify_tree(tree, category): the violations of all checks
verify_tree(c, t, category) ==
    invalid_root(t)
        \o Violations("cycle", contains_cycles(t, {}))
        \o Violations("unconnected", has_unconnected_nodes(t))
        \o invalid_arity(t)
        \o invalid_role_inheritance(c, t)

\* the document of a tree of the verification session: its name for title,
\* its nodes in the order of their ids
tree_document(t) ==
    Tree_create_json([name |-> t.name, title |-> t.name, root |-> t.root,
                      nodes |-> t.nodes, order |-> SetToSeq(DOMAIN t.nodes)])

\* the directory with the document of t at category/file
write_file(d, category, file, t) ==
    MapWith(d, category,
            MapWith(IF category \in DOMAIN d THEN d[category] ELSE EmptyMap,
                    file, tree_document(t)))

\* Collection.write_tree(tree, path, verify): the violations found when
\* verify is asked for, and the directory; with violations the file is
\* written or not (blocks)
write_tree(c, t, d, category, file, verify, blocks) ==
    LET violations == IF verify THEN verify_tree(c, t, category) ELSE <<>>
    IN  [ret |-> violations,
         disk |-> IF violations # <<>> /\ blocks THEN d
                  ELSE write_file(d, category, file, t)]

\* the (category, filename) pairs of a collection
tree_keys(c) == UNION {{<<cat, file>> : file \in DOMAIN c[cat]} : cat \in DOMAIN c}

\* Collection.add_tree(category, filename, tree)
add_tree(c, category, filename, t) ==
    MapWith(c, category,
            MapWith(IF category \in DOMAIN c THEN c[category] ELSE EmptyMap, filename, t))

\* update_subtree at every role node of the list, one after the other
RECURSIVE update_role_nodes(_, _, _, _)
update_role_nodes(t, role_tree, role_nodes, g) ==
    IF role_nodes = <<>> THEN [tree |-> t, idgen |-> g]
    ELSE LET r == update_subtree(t, role_tree, Head(role_nodes), role_tree.root, g)
         IN  update_role_nodes(r.tree, role_tree, Tail(role_nodes), r.idgen)

\* the trees under the keys of the list, each updated at its role nodes
RECURSIVE update_trees(_, _, _, _)
update_trees(c, keys, role_tree, g) ==
    IF keys = <<>> THEN [coll |-> c, idgen |-> g]
    ELSE LET k == Head(keys)
             t == c[k[1]][k[2]]
             r == update_role_nodes(t, role_tree,
                                    find_role_subtree_nodes_if_exist(t, role_tree.name), g)
         IN  update_trees([c EXCEPT ![k[1]][k[2]] = r.tree], Tail(keys), role_tree, r.idgen)

\* a tree named name with root id that holds every node of t
whole_tree_as_tree(t, id, name) == Tree(name, id, t.nodes)

\* the subtree of t at id as a tree of its own, named name
subtree_as_tree(t, id, name) ==
    Tree(name, id, [x \in Range(walk_tree(t, id)) |-> t.nodes[x]])

\* the propagation of update_subtrees_in_collection that also updates the
\* role nodes of the tree the change comes from
propagate_to_all_trees(c, source_key, role_tree, g) ==
    update_trees(c, SetToSeq(tree_keys(c) \ {<<"roles", role_tree.name \o ".json">>}),
                 role_tree, g)

\* every tree other than the source and the role tree itself gets a new
\* copy of the role tree below each of its role nodes
propagate_to_other_trees(c, source_key, role_tree, g) ==
    update_trees(c, SetToSeq(tree_keys(c) \ {source_key, <<"roles", role_tree.name \o ".json">>}),
                 role_tree, g)

\* the role-node branch of update_subtrees_in_collection without the test
\* for a role node that has no children
role_subtree_changed_unchecked(c, source_key, changed_node, g) ==
    LET source == c[source_key[1]][source_key[2]]
        role_node == find_role_subtree_node_above_node(source, changed_node)
    IN  IF role_node = "" THEN [coll |-> c, idgen |-> g]
        ELSE LET kids == source.nodes[role_node].children
                 top == IF kids = <<>> THEN "" ELSE kids[1]
                 role_tree == subtree_as_tree(source, top,
                                              source.nodes[role_node].attributes["role"])
             IN  propagate_to_other_trees(
                     add_tree(c, "roles", role_tree.name \o ".json", role_tree),
                     source_key, role_tree, g)

\* update_subtrees_in_collection for a tree that is not a role: the role
\* node at or above changed_node decides.  Without one, or when it has no
\* children, nothing happens; otherwise the subtree below it becomes the
\* role tree of that name and is propagated.
role_subtree_changed(c, source_key, changed_node, g) ==
    LET source == c[source_key[1]][source_key[2]]
        role_node == find_role_subtree_node_above_node(source, changed_node)
    IN  IF role_node = "" \/ source.nodes[role_node].children = <<>>
        THEN [coll |-> c, idgen |-> g]
        ELSE LET role_tree == subtree_as_tree(source, source.nodes[role_node].children[1],
                                              source.nodes[role_node].attributes["role"])
             IN  propagate_to_other_trees(
                     add_tree(c, "roles", role_tree.name \o ".json", role_tree),
                     source_key, role_tree, g)

\* Collection.update_subtrees_in_collection(source_tree, changed_node), the
\* source tree given by its category and filename: [coll, idgen].  A role
\* tree is propagated as it is.
update_subtrees_in_collection(c, source_key, changed_node, g) ==
    IF source_key[1] = "roles"
    THEN propagate_to_other_trees(c, source_key, c[source_key[1]][source_key[2]], g)
    ELSE role_subtree_changed(c, source_key, changed_node, g)

\* ---------------------------------------------------------------- fixtures
\* json/trees/valid/DemoTeamTwenteStrategy.json: 4 nodes, root Repeater with
\* the single child ParallelSequence, which has two children
DemoTeamTwenteStrategy ==
    Tree("DemoTeamTwenteStrategy", "a",
         [i \in {"a", "b", "c", "d"} |->
            CASE i = "a" -> Node("Repeater", EmptyMap, <<"b">>)
              [] i = "b" -> Node("ParallelSequence", EmptyMap, <<"c", "d">>)
              [] i = "c" -> Node("Tactic", EmptyMap, <<>>)
              [] i = "d" -> Node("Tactic", EmptyMap, <<>>)])

\* DemoTeamTwenteStrategy after tree.nodes.get("c").add_property("p", "v")
DemoWithProperty ==
    [DemoTeamTwenteStrategy EXCEPT !.nodes["c"] = add_property(@, "p", "v")]

\* json/trees/valid/SimpleTree.json: Tree("SimpleTree", "1", {"1": Node("Sequence", "1")})
SimpleTree ==
    Tree("SimpleTree", "1", [i \in {"1"} |-> Node("Sequence", EmptyMap, <<>>)])

\* a two-node source tree: SimpleTree with one child below its root
SimpleTree2 ==
    Tree("SimpleTree", "1",
         [i \in {"1", "2"} |->
            IF i = "1" THEN Node("Sequence", EmptyMap, <<"2">>)
            ELSE Node("Tactic", EmptyMap, <<>>)])

\* json/jsons/roles/EnterFormationRole.json: two nodes, the root with the
\* single child EnterFormation
EnterFormationRole ==
    Tree("EnterFormationRole", "r1",
         [i \in {"r1", "r2"} |->
            IF i = "r1" THEN Node("Sequence", EmptyMap, <<"r2">>)
            ELSE Node("EnterFormation", EmptyMap, <<>>)])

\* attributes={'role': 'EnterFormationRole'}
RoleAttributes == [k \in {"role"} |-> "EnterFormationRole"]

\* json/jsons/tactics/EnterFormationTactic.json, with two of its role nodes:
\* each has a copy of EnterFormationRole as its subtree
EnterFormationTactic ==
    Tree("EnterFormationTactic", "t1",
         [i \in {"t1", "n1", "x1", "x2", "n2", "y1", "y2"} |->
            CASE i = "t1" -> Node("ParallelSequence", EmptyMap, <<"n1", "n2">>)
              [] i \in {"n1", "n2"} ->
                   Node("Role", RoleAttributes, IF i = "n1" THEN <<"x1">> ELSE <<"y1">>)
              [] i \in {"x1", "y1"} ->
                   Node("Sequence", EmptyMap, IF i = "x1" THEN <<"x2">> ELSE <<"y2">>)
              [] i \in {"x2", "y2"} -> Node("EnterFormation", EmptyMap, <<>>)])

\* Collection.from_path(json/jsons/): the three trees the tests look up
Jsons ==
    [cat \in {"roles", "tactics", "strategies", "keeper"} |->
        CASE cat = "roles" ->
               [f \in {"EnterFormationRole.json"} |-> EnterFormationRole]
          [] cat = "tactics" ->
               [f \in {"EnterFormationTactic.json"} |-> EnterFormationTactic]
          [] cat = "strategies" ->
               [f \in {"DemoTeamTwenteStrategy.json"} |-> DemoTeamTwenteStrategy]
          [] cat = "keeper" -> EmptyMap]

\* an id that is a key of no tree ('abcd', 'non_existing_id' in the tests)
NoSuchId == "abcd"

EmptyColl == EmptyMap

NoOp == [op |-> "none", a |-> "", b |-> "", ret |-> FALSE, pre |-> SimpleTree]

\* no Node object, no document and no call in progress
NoNode == [id |-> "", title |-> "", attributes |-> EmptyMap, children |-> <<>>]
NoDoc == EmptyMap
Idle == [op |-> "none", done |-> FALSE]

\* no graphics scene and no directory
NoScene == EmptyMap
NoDisk == EmptyMap

\* --------------------------------------------------- Tree editing session
TreeIds == (DOMAIN tree.nodes) \cup {NoSuchId}

Record(op, a, b, ret) ==
    last' = [op |-> op, a |-> a, b |-> b, ret |-> ret, pre |-> tree]

Step == steps < MaxSteps /\ steps' = steps + 1

InitTree ==
    /\ scene = NoScene
    /\ disk = NoDisk
    /\ tree \in {DemoTeamTwenteStrategy, DemoWithProperty}
    /\ other \in {SimpleTree, SimpleTree2}
    /\ coll = EmptyColl
    /\ idgen = 0
    /\ steps = 0
    /\ last = NoOp
    /\ nodeobj = NoNode
    /\ doc = NoDoc
    /\ run = Idle

\* tree.add_node(Node("test_node", "test_node", children=cs))
AddNode ==
    /\ Step
    /\ \E cs \in {<<>>, <<NoSuchId>>} :
          /\ tree' = add_node(tree, "test_node", Node("test_node", EmptyMap, cs))
          /\ Record("add_node", "test_node", "", TRUE)
    /\ UNCHANGED <<scene, disk, nodeobj, doc, run, other, coll, idgen>>

\* tree.nodes.get(p).add_child(c)
AddChild ==
    /\ Step
    /\ \E p \in DOMAIN tree.nodes, c \in TreeIds :
          /\ Len(tree.nodes[p].children) < MaxChildren
          /\ tree' = [tree EXCEPT !.nodes[p] = add_child(@, c)]
          /\ Record("add_child", p, c, TRUE)
    /\ UNCHANGED <<scene, disk, nodeobj, doc, run, other, coll, idgen>>

\* tree.remove_node(tree.nodes.get(id)), tree.remove_node(Node("title", id))
RemoveNode ==
    /\ Step
    /\ \E id \in TreeIds :
          LET nd == [id |-> id, title |-> "title", attributes |-> EmptyMap, children |-> <<>>]
              r == remove_node(tree, nd)
          IN  /\ tree' = r.tree
              /\ Record("remove_node", id, "", r.ok)
    /\ UNCHANGED <<scene, disk, nodeobj, doc, run, other, coll, idgen>>

\* tree.remove_node_by_id(id)
RemoveNodeById ==
    /\ Step
    /\ \E id \in TreeIds :
          LET r == remove_node_by_id(tree, id)
          IN  /\ tree' = r.tree
              /\ Record("remove_node_by_id", id, "", r.ok)
    /\ UNCHANGED <<scene, disk, nodeobj, doc, run, other, coll, idgen>>

RemoveNodeAndChildrenById ==
    /\ Step
    /\ \E id \in TreeIds :
          LET r == remove_node_and_children_by_id(tree, id)
          IN  /\ tree' = r.tree
              /\ Record("remove_node_and_children_by_id", id, "", r.ok)
    /\ UNCHANGED <<scene, disk, nodeobj, doc, run, other, coll, idgen>>

OtherIds == (DOMAIN other.nodes) \cup {NoSuchId}

\* tree.add_subtree(other, parent_id, child_id)
AddSubtree ==
    /\ Step
    /\ \E p \in TreeIds, c \in OtherIds :
          /\ p \in DOMAIN tree.nodes => Len(tree.nodes[p].children) < MaxChildren
          /\ tree' = add_subtree(tree, other, p, c)
          /\ Record("add_subtree", p, c, TRUE)
    /\ UNCHANGED <<scene, disk, nodeobj, doc, run, other, coll, idgen>>

\* tree.update_subtree(other, target_id, source_id)
UpdateSubtree ==
    /\ Step
    /\ \E t \in TreeIds, s \in OtherIds :
          LET r == update_subtree(tree, other, t, s, idgen)
          IN  /\ tree' = r.tree
              /\ idgen' = r.idgen
              /\ Record("update_subtree", t, s, TRUE)
    /\ UNCHANGED <<scene, disk, nodeobj, doc, run, other, coll>>

\* tree.remove_subtree(id)
RemoveSubtree ==
    /\ Step
    /\ \E id \in TreeIds :
          /\ tree' = remove_subtree(tree, id)
          /\ Record("remove_subtree", id, "", TRUE)
    /\ UNCHANGED <<scene, disk, nodeobj, doc, run, other, coll, idgen>>

\* tree.propagate_role(id, "t")
PropagateRole ==
    /\ Step
    /\ \E id \in TreeIds :
          /\ tree' = propagate_role(tree, id, "t")
          /\ Record("propagate_role", id, "t", TRUE)
    /\ UNCHANGED <<scene, disk, nodeobj, doc, run, other, coll, idgen>>

\* tree.remove_propagation(id)
RemovePropagation ==
    /\ Step
    /\ \E id \in TreeIds :
          /\ tree' = remove_propagation(tree, id)
          /\ Record("remove_propagation", id, "", TRUE)
    /\ UNCHANGED <<scene, disk, nodeobj, doc, run, other, coll, idgen>>

NextTree ==
    \/ AddNode
    \/ AddChild
    \/ RemoveNode
    \/ RemoveNodeById
    \/ RemoveNodeAndChildrenById
    \/ AddSubtree
    \/ UpdateSubtree
    \/ RemoveSubtree
    \/ PropagateRole
    \/ RemovePropagation

SpecTree == InitTree /\ [][NextTree]_vars

\* ----------------------------------------------------- verification session
\* children lists of the trees handed to Verification: duplicate-free lists
\* of at most MaxChildren ids, over the three node ids and one id that
\* resolves to nothing
VerifyIds == {"a", "b", "c"}

ChildLists ==
    {cs \in UNION {[1..n -> VerifyIds \cup {NoSuchId}] : n \in 0..MaxChildren} :
        \A i, j \in 1..Len(cs) : i # j => cs[i] # cs[j]}

\* every tree over the three nodes: connected or not, cyclic or not, with
\* or without children that resolve, with root a or without root
InitVerify ==
    /\ scene = NoScene
    /\ disk = NoDisk
    /\ \E r \in {"a", ""}, kids \in [VerifyIds -> ChildLists] :
          tree = Tree("SimpleNonCyclicTree", r,
                      [x \in VerifyIds |-> Node("Sequence", EmptyMap, kids[x])])
    /\ other = SimpleTree
    /\ coll = EmptyColl
    /\ idgen = 0
    /\ steps = 0
    /\ last = NoOp
    /\ nodeobj = NoNode
    /\ doc = NoDoc
    /\ run = Idle

\* Verification.walk_tree(tree, tree.nodes.get(start))
WalkTree ==
    /\ \E start \in DOMAIN tree.nodes :
          Record("walk_tree", start, "", walk_tree(tree, start))
    /\ UNCHANGED <<scene, disk, nodeobj, doc, run, tree, other, coll, idgen, steps>>

\* Verification.contains_cycles(tree, {})
ContainsCycles ==
    /\ Record("contains_cycles", "", "", contains_cycles(tree, {}))
    /\ UNCHANGED <<scene, disk, nodeobj, doc, run, tree, other, coll, idgen, steps>>

\* Verification.has_unconnected_nodes(tree)
HasUnconnectedNodes ==
    /\ Record("has_unconnected_nodes", "", "", has_unconnected_nodes(tree))
    /\ UNCHANGED <<scene, disk, nodeobj, doc, run, tree, other, coll, idgen, steps>>

NextVerify ==
    \/ WalkTree
    \/ ContainsCycles
    \/ HasUnconnectedNodes

SpecVerify == InitVerify /\ [][NextVerify]_vars

\* ------------------------------------------------- verify_tree session
\* title and attributes of node b of the trees handed to verify_tree
RoleNodes ==
    {Node("Repeater", EmptyMap, <<>>), Node("ParallelSequence", EmptyMap, <<>>),
     Node("Role", RoleAttributes, <<>>),
     Node("Role", [k \in {"role"} |-> "NoSuchRole"], <<>>)}

\* the trees handed to verify_tree: over no node, over a, or over a, b and
\* c; with a root that is a node, empty, or no key of nodes
VerifiedTrees ==
    {Tree("SimpleNonCyclicTree", r, EmptyMap) : r \in {"", NoSuchId}}
    \cup {Tree("SimpleNonCyclicTree", r,
               [x \in {"a"} |-> Node(title, EmptyMap, kids)]) :
            r \in {"a", "", NoSuchId}, title \in {"Repeater", "Sequence"},
            kids \in {<<>>, <<"a">>, <<NoSuchId>>}}
    \cup {Tree("SimpleNonCyclicTree", r,
               [x \in VerifyIds |->
                  CASE x = "a" -> Node(ta, EmptyMap, ka)
                    [] x = "b" -> [nb EXCEPT !.children = kb]
                    [] x = "c" -> Node(tc, EmptyMap, kc)]) :
            r \in {"a", "b", "", NoSuchId},
            ta \in {"Repeater", "Sequence", "EnterFormation"}, ka \in ChildLists,
            nb \in RoleNodes, kb \in {<<>>, <<"c">>, <<"a", "c">>},
            tc \in {"Sequence", "Tactic"}, kc \in {<<>>, <<"a">>}}

InitVerifyTree ==
    /\ scene = NoScene
    /\ disk = NoDisk
    /\ tree \in VerifiedTrees
    /\ other = SimpleTree
    /\ coll = Jsons
    /\ idgen = 0
    /\ steps = 0
    /\ last = NoOp
    /\ nodeobj = NoNode
    /\ doc = NoDoc
    /\ run = Idle

\* collection.verify_tree(tree, category)
VerifyTree ==
    /\ \E category \in {"roles", "tactics"} :
          Record("verify_tree", category, "", verify_tree(coll, tree, category))
    /\ UNCHANGED <<scene, disk, nodeobj, doc, run, tree, other, coll, idgen, steps>>

\* collection.write_tree(tree, path, verify)
WriteTree ==
    /\ \E verify, blocks \in BOOLEAN :
          LET r == write_tree(coll, tree, disk, <<"verification">>,
                              <<"test", ".json">>, verify, blocks)
          IN  /\ disk' = r.disk
              /\ Record("write_tree", IF verify THEN "verify" ELSE "", "", r.ret)
    /\ UNCHANGED <<scene, nodeobj, doc, run, tree, other, coll, idgen, steps>>

NextVerifyTree ==
    \/ VerifyTree
    \/ WriteTree

SpecVerifyTree == InitVerifyTree /\ [][NextVerifyTree]_vars

\* ------------------------------------------- removing a tree node by node
\* the trees over the three nodes in which every node is reachable from the
\* root a: with or without a child id that resolves to nothing, a node
\* listed by two parents, or a cycle
ReachableTrees ==
    {t \in {Tree("DanceStrategy", "a",
                 [x \in VerifyIds |-> Node("Sequence", EmptyMap, kids[x])]) :
                kids \in [VerifyIds -> ChildLists]} :
        Range(walk_tree(t, "a")) = VerifyIds}

\* the tree as it is loaded is kept in other; run.ok is what the call on
\* test_node returned
InitRemoveAll ==
    /\ scene = NoScene
    /\ disk = NoDisk
    /\ tree \in ReachableTrees
    /\ other = tree
    /\ coll = EmptyColl
    /\ idgen = 0
    /\ steps = 0
    /\ last = NoOp
    /\ nodeobj = NoNode
    /\ doc = NoDoc
    /\ run = [op |-> "remove_all", done |-> FALSE, ok |-> TRUE]

\* tree.add_node(Node("test_node", "test_node", children=['non_existing_node']))
AddTestNode ==
    /\ steps = 0
    /\ steps' = 1
    /\ tree' = add_node(tree, "test_node", Node("test_node", EmptyMap, <<"non_existing_node">>))
    /\ Record("add_node", "test_node", "", TRUE)
    /\ UNCHANGED <<scene, disk, nodeobj, doc, run, other, coll, idgen>>

\* tree.remove_node_and_children_by_id("test_node")
RemoveTestNode ==
    /\ steps = 1
    /\ steps' = 2
    /\ LET r == remove_node_and_children_by_id(tree, "test_node")
       IN  /\ tree' = r.tree
           /\ run' = [run EXCEPT !.ok = r.ok]
           /\ Record("remove_node_and_children_by_id", "test_node", "", r.ok)
    /\ UNCHANGED <<scene, disk, nodeobj, doc, other, coll, idgen>>

\* tree.remove_node_and_children_by_id(tree.root)
RemoveRoot ==
    /\ steps = 2
    /\ steps' = 3
    /\ LET r == remove_node_and_children_by_id(tree, tree.root)
       IN  /\ tree' = r.tree
           /\ run' = [run EXCEPT !.done = TRUE]
           /\ Record("remove_node_and_children_by_id", tree.root, "", r.ok)
    /\ UNCHANGED <<scene, disk, nodeobj, doc, other, coll, idgen>>

NextRemoveAll ==
    \/ AddTestNode
    \/ RemoveTestNode
    \/ RemoveRoot

SpecRemoveAll == InitRemoveAll /\ [][NextRemoveAll]_vars

\* ------------------------------------------------- collection editing session
RecordColl(op, a, b, ret) ==
    last' = [op |-> op, a |-> a, b |-> b, ret |-> ret, pre |-> coll]

InitColl ==
    /\ scene = NoScene
    /\ disk = NoDisk
    /\ coll = Jsons
    /\ tree = SimpleTree
    /\ other = SimpleTree
    /\ idgen = 0
    /\ steps = 0
    /\ last = NoOp
    /\ nodeobj = NoNode
    /\ doc = NoDoc
    /\ run = Idle

\* tree.nodes.get(id).title = 'TestChange', in the role or in the tactic
SetTitle ==
    /\ Step
    /\ \E k \in {<<"roles", "EnterFormationRole.json">>,
                 <<"tactics", "EnterFormationTactic.json">>} :
       \E id \in DOMAIN coll[k[1]][k[2]].nodes :
          /\ coll[k[1]][k[2]].nodes[id].title # "TestChange"
          /\ coll' = [coll EXCEPT ![k[1]][k[2]].nodes[id].title = "TestChange"]
          /\ RecordColl("title", k, id, TRUE)
    /\ UNCHANGED <<scene, disk, nodeobj, doc, run, tree, other, idgen>>

\* node = Node('Role', attributes={'role': 'EnterFormationRole'});
\* tree.add_node(node); tree.nodes.get(p).add_child(node.id), in a tree that
\* is not a role
AddRoleNode ==
    /\ Step
    /\ \E k \in {x \in tree_keys(coll) : x[1] # "roles"} :
       \E p \in DOMAIN coll[k[1]][k[2]].nodes :
          LET t == coll[k[1]][k[2]]
              id == generate_id(idgen + 1)
          IN  /\ Len(t.nodes[p].children) < MaxChildren
              /\ coll' = [coll EXCEPT ![k[1]][k[2]] =
                            WithNewChild(t, p, id, Node("Role", RoleAttributes, <<>>))]
              /\ RecordColl("add_role_node", k, id, TRUE)
    /\ idgen' = idgen + 1
    /\ UNCHANGED <<scene, disk, nodeobj, doc, run, tree, other>>

\* one more node in the role tree: tree.add_node(node), followed or not by
\* tree.nodes.get(p).add_child(node.id)
AddNodeToRole ==
    /\ Step
    /\ \E p \in DOMAIN coll["roles"]["EnterFormationRole.json"].nodes, connect \in BOOLEAN :
          LET t == coll["roles"]["EnterFormationRole.json"]
              id == generate_id(idgen + 1)
              node == Node("Tactic", EmptyMap, <<>>)
          IN  /\ Len(t.nodes[p].children) < MaxChildren
              /\ coll' = [coll EXCEPT !["roles"]["EnterFormationRole.json"] =
                            IF connect THEN WithNewChild(t, p, id, node)
                            ELSE add_node(t, id, node)]
              /\ RecordColl("add_node_to_role", p, id, connect)
    /\ idgen' = idgen + 1
    /\ UNCHANGED <<scene, disk, nodeobj, doc, run, tree, other>>

\* collection.update_subtrees_in_collection(tree, tree.nodes.get(id))
UpdateSubtreesInCollection ==
    /\ Step
    /\ \E k \in tree_keys(coll) :
       \E id \in DOMAIN coll[k[1]][k[2]].nodes :
          LET r == update_subtrees_in_collection(coll, k, id, idgen)
          IN  /\ coll' = r.coll
              /\ idgen' = r.idgen
              /\ RecordColl("update_subtrees_in_collection", k, id, TRUE)
    /\ UNCHANGED <<scene, disk, nodeobj, doc, run, tree, other>>

\* tree.find_role_subtree_nodes_if_exist(role_name)
FindRoleSubtreeNodesIfExist ==
    /\ \E k \in tree_keys(coll), role_name \in {"EnterFormationRole", NoSuchId} :
          RecordColl("find_role_subtree_nodes_if_exist", k, role_name,
                     find_role_subtree_nodes_if_exist(coll[k[1]][k[2]], role_name))
    /\ UNCHANGED <<scene, disk, nodeobj, doc, run, tree, other, coll, idgen, steps>>

NextColl ==
    \/ FindRoleSubtreeNodesIfExist
    \/ SetTitle
    \/ AddRoleNode
    \/ AddNodeToRole
    \/ UpdateSubtreesInCollection

SpecColl == InitColl /\ [][NextColl]_vars

\* --------------------------------------------------------- one Node object
\* Node("node", "1", {"a": True}, ["2", "3"]) and the three other nodes of
\* TestNode: with or without attributes, with or without children
TestNodes ==
    {[id |-> "1", title |-> "node", attributes |-> attrs, children |-> cs] :
        attrs \in {EmptyMap, [k \in {"a"} |-> "True"]}, cs \in {<<>>, <<"2", "3">>}}

RecordNode(op, a, b) ==
    last' = [op |-> op, a |-> a, b |-> b, ret |-> TRUE, pre |-> nodeobj]

InitNode ==
    /\ scene = NoScene
    /\ disk = NoDisk
    /\ nodeobj \in TestNodes
    /\ tree = SimpleTree
    /\ other = SimpleTree
    /\ coll = EmptyColl
    /\ idgen = 0
    /\ steps = 0
    /\ last = NoOp
    /\ doc = NoDoc
    /\ run = Idle

\* node.add_child(id)
NodeAddChild ==
    /\ Step
    /\ \E id \in {"2", "4"} :
          /\ Len(nodeobj.children) <= MaxChildren
          /\ nodeobj' = add_child(nodeobj, id)
          /\ RecordNode("add_child", id, "")
    /\ UNCHANGED <<scene, disk, tree, other, coll, idgen, doc, run>>

\* node.remove_child(id)
NodeRemoveChild ==
    /\ Step
    /\ \E id \in {"2", "4"} :
          /\ nodeobj' = remove_child(nodeobj, id)
          /\ RecordNode("remove_child", id, "")
    /\ UNCHANGED <<scene, disk, tree, other, coll, idgen, doc, run>>

\* node.add_attribute(key, value)
NodeAddAttribute ==
    /\ Step
    /\ \E key \in {"a", "b"} :
          /\ nodeobj' = add_attribute(nodeobj, key, "False")
          /\ RecordNode("add_attribute", key, "False")
    /\ UNCHANGED <<scene, disk, tree, other, coll, idgen, doc, run>>

\* node.remove_attribute(key)
NodeRemoveAttribute ==
    /\ Step
    /\ \E key \in {"a", "b", "properties"} :
          /\ nodeobj' = remove_attribute(nodeobj, key)
          /\ RecordNode("remove_attribute", key, "")
    /\ UNCHANGED <<scene, disk, tree, other, coll, idgen, doc, run>>

\* node.add_property(key, value)
NodeAddProperty ==
    /\ Step
    /\ \E key \in {"a", "b"} :
          /\ nodeobj' = add_property(nodeobj, key, "c")
          /\ RecordNode("add_property", key, "c")
    /\ UNCHANGED <<scene, disk, tree, other, coll, idgen, doc, run>>

\* node.remove_property(key)
NodeRemoveProperty ==
    /\ Step
    /\ \E key \in {"a", "b"} :
          /\ nodeobj' = remove_property(nodeobj, key)
          /\ RecordNode("remove_property", key, "")
    /\ UNCHANGED <<scene, disk, tree, other, coll, idgen, doc, run>>

NextNode ==
    \/ NodeAddChild
    \/ NodeRemoveChild
    \/ NodeAddAttribute
    \/ NodeRemoveAttribute
    \/ NodeAddProperty
    \/ NodeRemoveProperty

SpecNode == InitNode /\ [][NextNode]_vars

\* ------------------------------------------------------ documents in and out
\* a key that a document does not have
Absent == [t |-> "absent"]

\* the object with the keys of sel whose value is not Absent
OptFields(sel) == [k \in {x \in DOMAIN sel : sel[x] # Absent} |-> sel[k]]

\* the node documents: every key there or not; id and title a string or a
\* number; attributes an empty or a non-empty object; children an empty
\* list, a list of strings, a list of numbers or a string; with or without
\* a key that Node does not know
NodeDocs ==
    {OptFields([id |-> i, title |-> ti, attributes |-> a, children |-> c, comment |-> x]) :
        i \in {Absent, JString("1"), JNumber(1)},
        ti \in {Absent, JString("node"), JNumber(1)},
        a \in {Absent, JObject(EmptyMap), JObject([k \in {"a"} |-> JTrue])},
        c \in {Absent, JArray(<<>>), JArray(<<JString("2"), JString("3")>>),
               JArray(<<JNumber(2)>>), JString("2")},
        x \in {Absent, JString("x")}}

\* the node entries of the tree documents: the two nodes of a valid tree, a
\* second node with id 1, a node with an empty attributes object, a node
\* without id, a node whose id is a number, a node without title and a node
\* whose children are numbers
NodeEntries ==
    {JObject(OptFields([id |-> JString("1"), title |-> JString("Sequence"),
                        children |-> JArray(<<JString("2")>>)])),
     JObject(OptFields([id |-> JString("2"), title |-> JString("Tactic")])),
     JObject(OptFields([id |-> JString("1"), title |-> JString("Repeater")])),
     JObject(OptFields([id |-> JString("2"), title |-> JString("Tactic"),
                        attributes |-> JObject(EmptyMap)])),
     JObject(OptFields([title |-> JString("Tactic")])),
     JObject(OptFields([id |-> JNumber(2), title |-> JString("Tactic")])),
     JObject(OptFields([id |-> JString("2")])),
     JObject(OptFields([id |-> JString("1"), title |-> JString("Sequence"),
                        children |-> JArray(<<JNumber(2)>>)]))}

\* the entries of trees: nodes missing, empty or a list of up to MaxNodeDocs
\* node entries; root missing, a string or a number
TreeEntries ==
    {JObject(OptFields([nodes |-> n, root |-> r])) :
        n \in {Absent} \cup {JArray(l) : l \in UNION {[1..k -> NodeEntries] : k \in 0..MaxNodeDocs}},
        r \in {Absent, JString("1"), JNumber(1)}}

\* the tree documents: without the data wrapper, or with it and with name
\* and title missing, a string or a number, and trees missing, empty, with
\* an entry that is a string, with one entry or with the same entry twice
TreeDocs ==
    {EmptyMap} \cup
    {[k \in {"data"} |-> JObject(OptFields([name |-> n, title |-> ti, trees |-> tr]))] :
        n \in {Absent, JString("SimpleTree"), JNumber(1)},
        ti \in {Absent, JString("Simple Tree"), JNumber(1)},
        tr \in {Absent, JArray(<<>>), JArray(<<JString("tree")>>)}
               \cup {JArray(<<e>>) : e \in TreeEntries}
               \cup {JArray(<<e, e>>) : e \in TreeEntries}}

NoTree == InvalidTree.tree

RecordDoc(op, ret) ==
    last' = [op |-> op, a |-> "", b |-> "", ret |-> ret, pre |-> doc]

InitDoc ==
    /\ scene = NoScene
    /\ disk = NoDisk
    /\ doc \in NodeDocs \cup TreeDocs
    /\ tree = NoTree
    /\ nodeobj = NoNode
    /\ other = SimpleTree
    /\ coll = EmptyColl
    /\ idgen = 0
    /\ steps = 0
    /\ last = NoOp
    /\ run = Idle

\* node = Node.from_json(doc); nothing is assigned when the parse raises
NodeFromJson ==
    /\ doc \in NodeDocs
    /\ LET r == Node_from_json(doc)
       IN  /\ nodeobj' = IF r.ok
                         THEN [id |-> r.id, title |-> r.node.title,
                               attributes |-> r.node.attributes,
                               children |-> r.node.children]
                         ELSE nodeobj
           /\ RecordDoc("Node.from_json", r.ok)
    /\ UNCHANGED <<scene, disk, tree, other, coll, idgen, steps, doc, run>>

\* doc = node.create_json()
NodeCreateJson ==
    /\ nodeobj # NoNode
    /\ doc' = Node_create_json(nodeobj.id, nodeobj)
    /\ RecordDoc("Node.create_json", TRUE)
    /\ UNCHANGED <<scene, disk, tree, other, coll, idgen, steps, nodeobj, run>>

\* tree = Tree.from_json(doc); nothing is assigned when the parse raises
TreeFromJson ==
    /\ doc \in TreeDocs
    /\ LET r == Tree_from_json(doc)
       IN  /\ tree' = IF r.ok THEN r.tree ELSE tree
           /\ RecordDoc("Tree.from_json", r.ok)
    /\ UNCHANGED <<scene, disk, other, coll, idgen, steps, nodeobj, doc, run>>

\* doc = tree.create_json()
TreeCreateJson ==
    /\ tree # NoTree
    /\ doc' = Tree_create_json(tree)
    /\ RecordDoc("Tree.create_json", TRUE)
    /\ UNCHANGED <<scene, disk, tree, other, coll, idgen, steps, nodeobj, run>>

NextDoc ==
    \/ NodeFromJson
    \/ NodeCreateJson
    \/ TreeFromJson
    \/ TreeCreateJson

SpecDoc == InitDoc /\ [][NextDoc]_vars

\* ---------------------------------------------------- traversals in progress
\* the trees that are traversed: two nodes whose children lists are any
\* duplicate-free lists of at most MaxChildren ids over the two nodes and an
\* id that resolves to nothing (so a node may list itself or its parent), the
\* first node with or without a role attribute, with root a or without root
WalkIds == {"a", "b"}

WalkChildLists ==
    {cs \in UNION {[1..n -> WalkIds \cup {NoSuchId}] : n \in 0..MaxChildren} :
        \A i, j \in 1..Len(cs) : i # j => cs[i] # cs[j]}

InitWalk ==
    /\ scene = NoScene
    /\ disk = NoDisk
    /\ \E r \in {"a", ""}, kids \in [WalkIds -> WalkChildLists],
          attrs \in {EmptyMap, RoleAttributes} :
          tree = Tree("SimpleCyclicTree", r,
                      [x \in WalkIds |->
                         Node("Sequence", IF x = "a" THEN attrs ELSE EmptyMap, kids[x])])
    /\ other = SimpleTree
    /\ coll = EmptyColl
    /\ idgen = 0
    /\ steps = 0
    /\ last = NoOp
    /\ nodeobj = NoNode
    /\ doc = NoDoc
    /\ run = Idle

\* the call op(a, b) as it is entered
Enter(op, a, b, todo) ==
    [op |-> op, a |-> a, b |-> b, phase |-> 1, todo |-> todo, stack |-> <<>>,
     seen |-> <<>>, visited |-> {}, path |-> {}, ret |-> <<>>, ok |-> TRUE,
     found |-> "", done |-> FALSE, pre |-> tree]

\* the operations that walk down from a node
DownOps == {"remove_subtree", "propagate_role", "remove_propagation",
            "find_role_subtree_nodes_below_node"}

Running == run.op # "none" /\ ~run.done

\* tree.remove_subtree(id), tree.propagate_role(id, "t"),
\* tree.remove_propagation(id), tree.find_role_subtree_nodes_below_node(node)
CallDown ==
    /\ run = Idle
    /\ \E op \in DownOps, id \in WalkIds \cup {NoSuchId} :
          run' = Enter(op, id, "", <<id>>)
    /\ UNCHANGED <<scene, disk, tree, other, coll, idgen, steps, last, nodeobj, doc>>

\* tree.add_subtree(tree, parent_id, child_id): nothing is walked when
\* parent_id is absent
CallAddSubtree ==
    /\ run = Idle
    /\ \E p \in {"a", NoSuchId}, c \in WalkIds \cup {NoSuchId} :
          run' = Enter("add_subtree", p, c,
                       IF p \in DOMAIN tree.nodes THEN <<c>> ELSE <<>>)
    /\ UNCHANGED <<scene, disk, tree, other, coll, idgen, steps, last, nodeobj, doc>>

\* tree.update_subtree(tree, target_id, source_id): the subtree below
\* target_id is walked first (phase 1), the one at source_id after it
\* (phase 2); nothing is walked when one of the two is absent
CallUpdateSubtree ==
    /\ run = Idle
    /\ \E t \in WalkIds \cup {NoSuchId}, s \in WalkIds \cup {NoSuchId} :
          run' = IF t \in DOMAIN tree.nodes /\ s \in DOMAIN tree.nodes
                 THEN Enter("update_subtree", t, s, <<t>>)
                 ELSE [Enter("update_subtree", t, s, <<>>) EXCEPT !.phase = 2]
    /\ UNCHANGED <<scene, disk, tree, other, coll, idgen, steps, last, nodeobj, doc>>

\* the next iteration of a walk down
StepDown ==
    /\ Running
    /\ run.op \in DownOps \cup {"add_subtree", "update_subtree"}
    /\ run.todo # <<>>
    /\ run' = walk_step(run.pre.nodes, run)
    /\ UNCHANGED <<scene, disk, tree, other, coll, idgen, steps, last, nodeobj, doc>>

\* update_subtree goes from its first walk to its second
NextPhase ==
    /\ Running
    /\ run.op = "update_subtree" /\ run.phase = 1 /\ run.todo = <<>>
    /\ run' = [run EXCEPT !.phase = 2, !.todo = <<run.b>>, !.seen = <<>>]
    /\ UNCHANGED <<scene, disk, tree, other, coll, idgen, steps, last, nodeobj, doc>>

\* the walk is over: the operation has its effect and returns
ReturnDown ==
    /\ Running
    /\ run.op \in DownOps \cup {"add_subtree", "update_subtree"}
    /\ run.todo = <<>>
    /\ run.op = "update_subtree" => run.phase = 2
    /\ LET r == update_subtree(tree, tree, run.a, run.b, idgen)
       IN  /\ tree' = CASE run.op = "remove_subtree" -> remove_subtree(tree, run.a)
                        [] run.op = "propagate_role" -> propagate_role(tree, run.a, "t")
                        [] run.op = "remove_propagation" -> remove_propagation(tree, run.a)
                        [] run.op = "add_subtree" -> add_subtree(tree, tree, run.a, run.b)
                        [] run.op = "update_subtree" -> r.tree
                        [] OTHER -> tree
           /\ idgen' = IF run.op = "update_subtree" THEN r.idgen ELSE idgen
    /\ run' = [run EXCEPT !.done = TRUE,
                 !.ret = IF run.op = "find_role_subtree_nodes_below_node"
                         THEN find_role_subtree_nodes_below_node(tree, run.a)
                         ELSE <<>>]
    /\ UNCHANGED <<scene, disk, other, coll, steps, last, nodeobj, doc>>

\* tree.remove_node_and_children_by_id(id)
CallRemove ==
    /\ run = Idle
    /\ \E id \in WalkIds \cup {NoSuchId} :
          run' = Enter("remove_node_and_children_by_id", id, "", <<id>>)
    /\ UNCHANGED <<scene, disk, tree, other, coll, idgen, steps, last, nodeobj, doc>>

\* the next call of the recursion, or its end with True when nothing is
\* pending any more
StepRemove ==
    /\ Running
    /\ run.op = "remove_node_and_children_by_id"
    /\ IF run.todo = <<>>
       THEN /\ run' = [run EXCEPT !.done = TRUE, !.ok = TRUE]
            /\ tree' = tree
       ELSE LET r == remove_step(tree, run)
            IN  run' = r.st /\ tree' = r.tree
    /\ UNCHANGED <<scene, disk, other, coll, idgen, steps, last, nodeobj, doc>>

\* tree.find_role_subtree_node_above_node(node)
CallAbove ==
    /\ run = Idle
    /\ \E id \in WalkIds :
          run' = Enter("find_role_subtree_node_above_node", id, "", <<id>>)
    /\ UNCHANGED <<scene, disk, tree, other, coll, idgen, steps, last, nodeobj, doc>>

StepAbove ==
    /\ Running
    /\ run.op = "find_role_subtree_node_above_node"
    /\ run' = up_step(tree, run)
    /\ UNCHANGED <<scene, disk, tree, other, coll, idgen, steps, last, nodeobj, doc>>

\* Verification.contains_cycles(tree, {})
CallCycles ==
    /\ run = Idle
    /\ run' = [Enter("contains_cycles", "", "", <<>>) EXCEPT
                  !.stack = <<[k |-> "visit", id |-> tree.root]>>]
    /\ UNCHANGED <<scene, disk, tree, other, coll, idgen, steps, last, nodeobj, doc>>

StepCycles ==
    /\ Running
    /\ run.op = "contains_cycles"
    /\ run' = IF run.stack = <<>> THEN [run EXCEPT !.done = TRUE]
              ELSE cycles_step(tree.nodes, run)
    /\ UNCHANGED <<scene, disk, tree, other, coll, idgen, steps, last, nodeobj, doc>>

\* the call in progress goes on
Continue ==
    \/ StepDown
    \/ NextPhase
    \/ ReturnDown
    \/ StepRemove
    \/ StepAbove
    \/ StepCycles

NextWalk ==
    \/ CallDown
    \/ CallAddSubtree
    \/ CallUpdateSubtree
    \/ CallRemove
    \/ CallAbove
    \/ CallCycles
    \/ Continue

\* the program is single-threaded and synchronous: a call that has been
\* entered keeps running until it returns
SpecWalk == InitWalk /\ [][NextWalk]_vars /\ WF_vars(Continue)

\* what the steps have done when a call has returned is what the operation
\* does as a whole
StepsAgree ==
    (run.op # "none" /\ run.done) =>
        CASE run.op \in DownOps \cup {"add_subtree"} ->
               LET start == IF run.op = "add_subtree" THEN run.b ELSE run.a
               IN  run.a \in DOMAIN run.pre.nodes => run.seen = walk_tree(run.pre, start)
          [] run.op = "update_subtree" ->
               (run.a \in DOMAIN run.pre.nodes /\ run.b \in DOMAIN run.pre.nodes)
                   => run.seen = walk_tree(run.pre, run.b)
          [] run.op = "remove_node_and_children_by_id" ->
               [ok |-> run.ok, tree |-> tree] = remove_node_and_children_by_id(run.pre, run.a)
          [] run.op = "find_role_subtree_node_above_node" ->
               run.found = find_role_subtree_node_above_node(run.pre, run.a)
          [] run.op = "contains_cycles" -> run.ret = contains_cycles(run.pre, {})

\* ------------------------------------------------- the directory of trees
\* A name of a directory or a file is the list of its parts, so that its
\* first character and its extension can be read off: <<".", "hiddenTree",
\* ".json">> is .hiddenTree.json, <<"roles">> is roles.  disk is the
\* directory: category directory -> file name -> parsed content of the file.
\* In this session the keys of the collection are such names.
starts_with(name, c) == name # <<>> /\ name[1] = c
ends_with(name, ext) == name # <<>> /\ name[Len(name)] = ext

\* the files of a category directory that are read: not hidden and with the
\* extension .json
tree_files(files) ==
    {f \in DOMAIN files : ~starts_with(f, ".") /\ ends_with(f, ".json")}

\* the trees of a category directory: the files that are read and parse
load_category(files) ==
    [f \in {g \in tree_files(files) : Tree_from_json(files[g]).ok} |->
        Tree_from_json(files[f]).tree]

\* build_collection that skips the directories with a leading dot only
build_collection_dot_only(d) ==
    [cat \in {c \in DOMAIN d : ~starts_with(c, ".")} |-> load_category(d[cat])]

\* Collection.build_collection(path), Collection.from_path(path): one
\* category for every directory whose name starts with neither "." nor "_"
build_collection(d) ==
    [cat \in {c \in DOMAIN d : ~starts_with(c, ".") /\ ~starts_with(c, "_")} |->
        load_category(d[cat])]

\* Collection.write_collection(path): every tree goes to its category
\* directory, which is made when it is not there; other files stay
write_collection(c, d) ==
    [cat \in (DOMAIN d) \cup (DOMAIN c) |->
        IF cat \notin DOMAIN c THEN d[cat]
        ELSE LET old == IF cat \in DOMAIN d THEN d[cat] ELSE EmptyMap
             IN  [f \in (DOMAIN old) \cup (DOMAIN c[cat]) |->
                    IF f \in DOMAIN c[cat] THEN Tree_create_json(c[cat][f]) ELSE old[f]]]

\* Collection.remove_tree(category, filename): nothing happens when the
\* category or the file is not there
remove_tree(c, category, filename) ==
    IF category \in DOMAIN c /\ filename \in DOMAIN c[category]
    THEN [c EXCEPT ![category] = MapWithout(@, filename)]
    ELSE c

\* json/collection/roles/Assister.json, a valid tree document with two
\* nodes, and roles/InvalidRole.json, a document without name
AssisterJson ==
    Tree_create_json([name |-> "Assister", title |-> "Assister", root |-> "1",
                      nodes |-> [i \in {"1", "2"} |->
                                   IF i = "1" THEN Node("Sequence", EmptyMap, <<"2">>)
                                   ELSE Node("Tactic", EmptyMap, <<>>)],
                      order |-> <<"1", "2">>])

InvalidRoleJson ==
    [k \in {"data"} |-> JObject(MapWithout(AssisterJson["data"].o, "name"))]

\* the names of the test directory json/collection
FileNames ==
    {<<"Assister", ".json">>, <<"InvalidRole", ".json">>,
     <<".", "hiddenTree", ".json">>, <<"TreeWithoutJsonFileExtension">>}

\* the directories with files under some of the names, each valid or not
Directories(names) ==
    UNION {[S -> {AssisterJson, InvalidRoleJson}] : S \in SUBSET names}

\* ------------------------------------------------------- loading session
\* a directory with roles, with or without tactics, .hiddendir and
\* _categoryunderscore
InitLoad ==
    /\ \E roles \in Directories(FileNames),
          tactics \in {EmptyMap} \cup Directories({<<"Assister", ".json">>}),
          dirs \in SUBSET {<<"tactics">>, <<".", "hiddendir">>, <<"_", "categoryunderscore">>} :
          disk = [cat \in {<<"roles">>} \cup dirs |->
                    IF cat = <<"roles">> THEN roles
                    ELSE IF cat = <<"tactics">> THEN tactics
                    ELSE [f \in {<<"Assister", ".json">>} |-> AssisterJson]]
    /\ scene = NoScene
    /\ coll = EmptyColl
    /\ tree = SimpleTree
    /\ other = SimpleTree
    /\ idgen = 0
    /\ steps = 0
    /\ last = NoOp
    /\ nodeobj = NoNode
    /\ doc = NoDoc
    /\ run = Idle

RecordLoad(op, a, b) ==
    last' = [op |-> op, a |-> a, b |-> b, ret |-> TRUE, pre |-> coll]

\* collection = Collection.from_path(path); collection.build_collection(path)
FromPath ==
    /\ coll' = build_collection(disk)
    /\ RecordLoad("from_path", <<>>, <<>>)
    /\ UNCHANGED <<scene, disk, tree, other, idgen, steps, nodeobj, doc, run>>

\* collection.remove_tree(category, filename)
RemoveTree ==
    /\ Step
    /\ \E cat \in {<<"roles">>, <<"keeper">>}, f \in FileNames :
          /\ coll' = remove_tree(coll, cat, f)
          /\ RecordLoad("remove_tree", cat, f)
    /\ UNCHANGED <<scene, disk, tree, other, idgen, nodeobj, doc, run>>

\* collection.write_collection(path)
WriteCollection ==
    /\ Step
    /\ disk' = write_collection(coll, disk)
    /\ RecordLoad("write_collection", <<>>, <<>>)
    /\ UNCHANGED <<scene, coll, tree, other, idgen, nodeobj, doc, run>>

NextLoad ==
    \/ FromPath
    \/ RemoveTree
    \/ WriteCollection

SpecLoad == InitLoad /\ [][NextLoad]_vars

\* ---------------------------------------------------------- the view Node
\* view.Node is a QGraphicsEllipseItem.  The scene is the record of its
\* items: the parent item of each (None for a top-level item), the visible
\* flag and the explicitly-hidden flag Qt keeps for each, the position of
\* each relative to its parent (one coordinate; x and y are handled alike),
\* and for each Node its children, whether its bottom button has been
\* shown, children_collapsed and collapse_data.  An Edge is the item between
\* a Node and its child: parent > edge > child.
ViewNodes == {"n1", "n2", "n3"}
ViewEdges == {"e1", "e2"}
Items == ViewNodes \cup ViewEdges
None == ""

\* self.collapse_data = None
NoCollapseData ==
    [set |-> FALSE, abs_pos |-> 0, rel_pos |-> 0, abs_top_level_pos |-> 0,
     parent |-> None, top_level_item |-> None]

\* QGraphicsItem.topLevelItem()
RECURSIVE topLevelItem(_, _)
topLevelItem(sc, i) ==
    IF sc.parent[i] = None THEN i ELSE topLevelItem(sc, sc.parent[i])

\* Node.xoffset(), Node.yoffset(): the relative distances summed up to the
\* top-level item
RECURSIVE xoffset(_, _)
xoffset(sc, i) ==
    IF sc.parent[i] # None THEN sc.pos[i] + xoffset(sc, sc.parent[i]) ELSE sc.pos[i]

\* QGraphicsItem.childItems()
childItems(sc, i) == {c \in Items : sc.parent[c] = i}

\* QGraphicsItem.setVisible(v), as show() and hide() call it (explicit) and
\* as Qt calls it for the children of an item (not explicit): an item under
\* a hidden parent cannot be shown; a change goes on to the children, to
\* those that were hidden explicitly only when it hides
RECURSIVE setVisible(_, _, _, _)
RECURSIVE setVisibleAll(_, _, _, _)
setVisible(sc, i, v, explicit) ==
    LET sc1 == IF explicit THEN [sc EXCEPT !.hidden[i] = ~v] ELSE sc
    IN  IF sc.parent[i] # None /\ v /\ ~sc.visible[sc.parent[i]] THEN sc1
        ELSE IF sc.visible[i] = v THEN sc1
        ELSE setVisibleAll([sc1 EXCEPT !.visible[i] = v],
                           SetToSeq(childItems(sc, i)), v, explicit)

setVisibleAll(sc, cs, v, explicit) ==
    IF cs = <<>> THEN sc
    ELSE IF ~v \/ ~sc.hidden[Head(cs)]
    THEN setVisibleAll(setVisible(sc, Head(cs), v, FALSE), Tail(cs), v, explicit)
    ELSE setVisibleAll(sc, Tail(cs), v, explicit)

\* QGraphicsItem.setParentItem(p): the item gets the parent p and takes over
\* its visibility; an item that is taken out of a hidden parent and was not
\* hidden explicitly is shown
setParentItem(sc, i, p) ==
    LET sc1 == [sc EXCEPT !.parent[i] = p]
    IN  IF p = None
        THEN IF ~sc.visible[i] /\ ~sc.hidden[i] THEN setVisible(sc1, i, TRUE, FALSE)
             ELSE sc1
        ELSE IF sc.visible[p] # sc.visible[i] /\ (~sc.visible[p] \/ ~sc.hidden[i])
        THEN setVisible(sc1, i, sc.visible[p], FALSE)
        ELSE sc1

\* Node.setPos(x): the position relative to the parent item
setPos(sc, i, x) == [sc EXCEPT !.pos[i] = x]

\* Node.add_child(child), with e the Edge it creates: Edge(self, child) puts
\* the child under the edge, the edge goes under this node
view_add_child(sc, n, child, e) ==
    LET sc1 == setParentItem(setParentItem(sc, child, e), e, n)
    IN  [sc1 EXCEPT !.children[n] = Append(@, child),
                    !.edges[n] = Append(@, e),
                    !.bottom_button[n] = TRUE]

\* Node.collapse_upwards()
collapse_upwards(sc, n) ==
    LET top == topLevelItem(sc, n)
        data == [set |-> TRUE,
                 abs_pos |-> xoffset(sc, n),
                 rel_pos |-> sc.pos[n],
                 abs_top_level_pos |-> xoffset(sc, top),
                 parent |-> sc.parent[n],
                 top_level_item |-> top]
        detached == setParentItem([sc EXCEPT !.collapse_data[n] = data], n, None)
    IN  setVisible(setPos(detached, n, data.abs_pos), data.top_level_item, FALSE, TRUE)

\* expand_upwards that shows the top-level item and leaves the node without
\* parent
expand_upwards_stays_detached(sc, n) ==
    setVisible(sc, topLevelItem(sc, n), TRUE, TRUE)

\* Node.expand_upwards(), for a node that has collapse_data
expand_upwards(sc, n) ==
    LET data == sc.collapse_data[n]
        new_abs_pos == xoffset(sc, n)
        new_abs_top_level_pos == xoffset(sc, data.top_level_item)
        attached == setParentItem(sc, n, data.parent)
        moved == setPos(attached, n,
                        data.rel_pos + ((new_abs_pos - data.abs_pos)
                                        - (new_abs_top_level_pos - data.abs_top_level_pos)))
    IN  setVisible(moved, topLevelItem(moved, n), TRUE, TRUE)

\* c.hide() / c.show() for the child items of the list
RECURSIVE setEdgesVisible(_, _, _)
setEdgesVisible(sc, es, v) ==
    IF es = <<>> THEN sc
    ELSE setEdgesVisible(setVisible(sc, Head(es), v, TRUE), Tail(es), v)

\* Node.collapse_children()
collapse_children(sc, n) ==
    [setEdgesVisible(sc, SetToSeq(childItems(sc, n) \cap ViewEdges), FALSE)
        EXCEPT !.children_collapsed[n] = TRUE]

\* Node.expand_children()
expand_children(sc, n) ==
    [setEdgesVisible(sc, SetToSeq(childItems(sc, n) \cap ViewEdges), TRUE)
        EXCEPT !.children_collapsed[n] = FALSE]

\* ------------------------------------------------------------ view session
\* three Nodes as the constructor leaves them, and two Edges not yet made
InitView ==
    /\ scene = [parent |-> [i \in Items |-> None],
                visible |-> [i \in Items |-> TRUE],
                hidden |-> [i \in Items |-> FALSE],
                pos |-> [i \in Items |-> 0],
                children |-> [n \in ViewNodes |-> <<>>],
                edges |-> [n \in ViewNodes |-> <<>>],
                bottom_button |-> [n \in ViewNodes |-> FALSE],
                children_collapsed |-> [n \in ViewNodes |-> FALSE],
                collapse_data |-> [n \in ViewNodes |-> NoCollapseData]]
    /\ disk = NoDisk
    /\ tree = SimpleTree
    /\ other = SimpleTree
    /\ coll = EmptyColl
    /\ idgen = 0
    /\ steps = 0
    /\ last = NoOp
    /\ nodeobj = NoNode
    /\ doc = NoDoc
    /\ run = Idle

RecordView(op, a, b) ==
    last' = [op |-> op, a |-> a, b |-> b, ret |-> TRUE, pre |-> scene]

\* the Edges that have been made
MadeEdges == UNION {Range(scene.edges[n]) : n \in ViewNodes}

\* parent.add_child(child) while the view of a tree is built: the child is
\* a Node on its own and not the top of the parent's tree
ViewAddChild ==
    /\ \A n \in ViewNodes : ~scene.collapse_data[n].set
    /\ MadeEdges # ViewEdges
    /\ \E n \in ViewNodes, child \in ViewNodes :
          /\ scene.parent[child] = None
          /\ topLevelItem(scene, n) # child
          /\ scene' = view_add_child(scene, n, child,
                                     CHOOSE e \in ViewEdges \ MadeEdges : TRUE)
          /\ RecordView("add_child", n, child)
    /\ UNCHANGED <<disk, tree, other, coll, idgen, steps, nodeobj, doc, run>>

\* a drag of the node: self.setPos(self.pos().x() + dx, ...)
MoveNode ==
    /\ Step
    /\ \E n \in ViewNodes, dx \in {-1, 1} :
          /\ scene' = setPos(scene, n, scene.pos[n] + dx)
          /\ RecordView("setPos", n, "")
    /\ UNCHANGED <<disk, tree, other, coll, idgen, nodeobj, doc, run>>

\* the top button of the node asks for collapse
CollapseUpwards ==
    /\ Step
    /\ \E n \in ViewNodes :
          /\ scene' = collapse_upwards(scene, n)
          /\ RecordView("collapse_upwards", n, "")
    /\ UNCHANGED <<disk, tree, other, coll, idgen, nodeobj, doc, run>>

\* the top button of the node asks for expand; without collapse_data the
\* handler raises TypeError and nothing changes
ExpandUpwards ==
    /\ Step
    /\ \E n \in ViewNodes :
          /\ scene' = IF scene.collapse_data[n].set THEN expand_upwards(scene, n)
                      ELSE scene
          /\ RecordView("expand_upwards", n, "")
    /\ UNCHANGED <<disk, tree, other, coll, idgen, nodeobj, doc, run>>

\* the bottom button of the node asks for collapse
CollapseChildren ==
    /\ Step
    /\ \E n \in ViewNodes :
          /\ scene' = collapse_children(scene, n)
          /\ RecordView("collapse_children", n, "")
    /\ UNCHANGED <<disk, tree, other, coll, idgen, nodeobj, doc, run>>

\* the bottom button of the node asks for expand
ExpandChildren ==
    /\ Step
    /\ \E n \in ViewNodes :
          /\ scene' = expand_children(scene, n)
          /\ RecordView("expand_children", n, "")
    /\ UNCHANGED <<disk, tree, other, coll, idgen, nodeobj, doc, run>>

NextView ==
    \/ ViewAddChild
    \/ MoveNode
    \/ CollapseUpwards
    \/ ExpandUpwards
    \/ CollapseChildren
    \/ ExpandChildren

SpecView == InitView /\ [][NextView]_vars

\* ------------------------------------------------------------------ claims
\* children of x that resolve to a node
Kids(nodes, x) == {c \in Range(nodes[x].children) : c \in DOMAIN nodes}

\* the nodes reachable from the set S by following children: the least set
\* that contains S and the resolving children of its members
RECURSIVE Closure(_, _)
Closure(nodes, S) ==
    LET next == S \cup UNION {Kids(nodes, x) : x \in S}
    IN  IF next = S THEN S ELSE Closure(nodes, next)

\* reachable from start in zero or more steps / from x in one or more steps
Reachable(t, start) == Closure(t.nodes, {start} \cap DOMAIN t.nodes)
ReachableFromKids(t, x) == Closure(t.nodes, Kids(t.nodes, x))

Removed == last.op = "remove_node_and_children_by_id"

\* C1: remove_node_and_children_by_id fails atomically: whenever it returns
\* False, nodes and root are exactly as before the call.
C1_FailsAtomically == (Removed /\ last.ret = FALSE) => tree = last.pre

\* the update_subtree call that was just made had a target in this tree and
\* a source in other_tree
Updated ==
    /\ last.op = "update_subtree"
    /\ last.a \in DOMAIN last.pre.nodes
    /\ last.b \in DOMAIN other.nodes

\* ids of the nodes update_subtree put in / the old subtree / the rest
Inserted == (DOMAIN tree.nodes) \ (DOMAIN last.pre.nodes)
OldBelow == below(last.pre, last.a)
Outside == (DOMAIN last.pre.nodes) \ (OldBelow \cup {last.a})
SourceSize == Len(walk_tree(other, last.b))

\* C5 as stated: after update_subtree the node under target_id is the top
\* copied node (the copy of source_id), and all other copied nodes have ids
\* that are neither ids of other_tree nor former keys of this tree.
C5_TopCopyReusesTargetId ==
    Updated =>
        /\ last.a \in DOMAIN tree.nodes
        /\ tree.nodes[last.a].title = other.nodes[last.b].title
        /\ Len(tree.nodes[last.a].children) = Len(other.nodes[last.b].children)
        /\ Inserted \cap DOMAIN other.nodes = {}

\* C5 amended: after update_subtree the node target_id is kept with its
\* title and attributes, nodes outside its old subtree (where it may be
\* listed as a child) are unchanged, its only child is the top copied node,
\* and every copied node, the top one included, has an id that is neither an
\* id of other_tree nor a former key of this tree; other_tree is unchanged.
C5_CopyHasFreshIds ==
    Updated =>
        /\ last.a \in DOMAIN tree.nodes
        /\ tree.nodes[last.a].title = last.pre.nodes[last.a].title
        /\ tree.nodes[last.a].attributes = last.pre.nodes[last.a].attributes
        /\ \A x \in Outside : x \in DOMAIN tree.nodes /\ tree.nodes[x] = last.pre.nodes[x]
        /\ Len(tree.nodes[last.a].children) = 1
        /\ tree.nodes[last.a].children[1] \in Inserted
        /\ tree.nodes[tree.nodes[last.a].children[1]].title = other.nodes[last.b].title
        /\ Cardinality(Inserted) = SourceSize
        /\ Inserted \cap DOMAIN other.nodes = {}
        /\ (DOMAIN tree.nodes) \ Inserted = Outside \cup {last.a}
        /\ other \in {SimpleTree, SimpleTree2}

\* C5 witness: the two-node source was copied below b, which had children
\* and is still the child of a
C5_Witness ==
    /\ Updated
    /\ last.a = "b"
    /\ last.pre = DemoTeamTwenteStrategy
    /\ tree.nodes["a"].children = <<"b">>
    /\ Cardinality(Inserted) = 2

\* C6 as stated: after update_subtree the old nodes below the target are
\* gone and the node count is (nodes outside the old subtree rooted at the
\* target) + (nodes of the source subtree).
C6_CountReplacesTarget ==
    Updated =>
        /\ OldBelow \cap DOMAIN tree.nodes = {}
        /\ Cardinality(DOMAIN tree.nodes) = Cardinality(Outside) + SourceSize

\* C6 amended: after update_subtree the old nodes below the target are gone
\* and the node count is (nodes outside the old subtree rooted at the target)
\* + 1 for the target, which is kept, + (nodes of the source subtree); the
\* 4-node tree updated at its root from the 1-node SimpleTree has 2 nodes.
C6_CountKeepsTarget ==
    Updated =>
        /\ OldBelow \cap DOMAIN tree.nodes = {}
        /\ Cardinality(DOMAIN tree.nodes) = Cardinality(Outside) + 1 + SourceSize
        /\ (last.pre = DemoTeamTwenteStrategy /\ last.a = "a" /\ other = SimpleTree)
              => Cardinality(DOMAIN tree.nodes) = 2

\* C6 witness: test_update_subtree, the 4-node tree updated at its root
C6_Witness ==
    /\ Updated
    /\ last.pre = DemoTeamTwenteStrategy
    /\ last.a = "a"
    /\ other = SimpleTree
    /\ Cardinality(DOMAIN tree.nodes) = 2

\* the call that was just made named an id that is not in the tree it must
\* be in
InvalidTarget ==
    \/ /\ last.op \in {"add_subtree", "update_subtree"}
       /\ (last.a \notin DOMAIN last.pre.nodes \/ last.b \notin DOMAIN other.nodes)
    \/ /\ last.op \in {"remove_subtree", "propagate_role", "remove_propagation"}
       /\ last.a \notin DOMAIN last.pre.nodes

\* C7: add_subtree, update_subtree, remove_subtree, propagate_role and
\* remove_propagation on an id that is absent leave nodes (attributes and
\* children of every node included) and root as they were.
C7_InvalidTargetIsNoOp == InvalidTarget => tree = last.pre

\* C7 witness: update_subtree with a target that has a subtree and a source
\* id that other_tree does not have (test_update_subtree_invalid)
C7_Witness ==
    /\ last.op = "update_subtree"
    /\ last.a = "a"
    /\ last.pre = DemoTeamTwenteStrategy
    /\ last.b = NoSuchId
    /\ Cardinality(DOMAIN tree.nodes) = 4

\* ------------------------------------------------------ collection claims
\* update_subtrees_in_collection was just called; its source tree before the
\* call, and a tree of the collection before and after the call
UpdatedColl == last.op = "update_subtrees_in_collection"
Source == last.pre[last.a[1]][last.a[2]]
Before(k) == last.pre[k[1]][k[2]]
After(k) == coll[k[1]][k[2]]
OtherKeys == tree_keys(last.pre) \ {last.a}

\* the nodes of t whose role attribute is role_name / those of them that do
\* not lie below another one / all of them with everything below them
Anchors(t, role_name) ==
    {x \in DOMAIN t.nodes : /\ "role" \in DOMAIN t.nodes[x].attributes
                            /\ t.nodes[x].attributes["role"] = role_name}
TopAnchors(t, role_name) ==
    {x \in Anchors(t, role_name) :
        \A y \in Anchors(t, role_name) : x \notin ReachableFromKids(t, y)}
AnchorSubtrees(t, role_name) ==
    UNION {Reachable(t, x) : x \in Anchors(t, role_name)}

\* the subtree of t1 at x1 has the titles and the child order of the subtree
\* of t2 at x2, down to depth d
RECURSIVE SameShape(_, _, _, _, _)
SameShape(t1, x1, t2, x2, d) ==
    /\ x1 \in DOMAIN t1.nodes
    /\ x2 \in DOMAIN t2.nodes
    /\ t1.nodes[x1].title = t2.nodes[x2].title
    /\ Len(t1.nodes[x1].children) = Len(t2.nodes[x2].children)
    /\ t2.nodes[x2].children # <<>> => d > 0
    /\ \A i \in 1..Len(t2.nodes[x2].children) :
          SameShape(t1, t1.nodes[x1].children[i], t2, t2.nodes[x2].children[i], d - 1)

\* the node n of tree k has, after the call, one child with a copy of the
\* role tree r below it, count nodes of r in all, and the ids that are new in
\* tree k are no ids of r
HasCopyBelow(k, n, r, count) ==
    /\ n \in DOMAIN After(k).nodes
    /\ Len(After(k).nodes[n].children) = 1
    /\ SameShape(After(k), After(k).nodes[n].children[1], r, r.root,
                 Cardinality(DOMAIN r.nodes))
    /\ Len(walk_tree(After(k), After(k).nodes[n].children[1])) = count
    /\ ((DOMAIN After(k).nodes) \ (DOMAIN Before(k).nodes)) \cap DOMAIN r.nodes = {}

\* the nodes of tree k with these ids are the same before and after the call
Untouched(k, ids) ==
    \A x \in ids : x \in DOMAIN After(k).nodes /\ After(k).nodes[x] = Before(k).nodes[x]

\* C2 as stated: after update_subtrees_in_collection(R) for a role tree R,
\* every node N of another tree T with role R.name keeps its id and has a
\* copy of R (node count, titles, child order) below it under ids that are
\* new to T and no ids of R, and every node of T outside N's old subtree is
\* unchanged.
C2_CopyBelowAnchor ==
    (UpdatedColl /\ last.a[1] = "roles") =>
        \A k \in OtherKeys : \A n \in Anchors(Before(k), Source.name) :
            /\ HasCopyBelow(k, n, Source, Cardinality(DOMAIN Source.nodes))
            /\ Untouched(k, (DOMAIN Before(k).nodes) \ Reachable(Before(k), n))

\* C2 amended: after update_subtrees_in_collection(R) for a role tree R,
\* every node N of another tree T with role R.name that does not lie below
\* another such node keeps its id and has a copy of R (as many nodes as R's
\* root reaches, titles, child order) below it under ids that are new to T
\* and no ids of R, and every node of T outside the old subtrees of the
\* nodes with role R.name is unchanged.
C2_CopyBelowEachAnchor ==
    (UpdatedColl /\ last.a[1] = "roles") =>
        \A k \in OtherKeys :
            /\ \A n \in TopAnchors(Before(k), Source.name) :
                  /\ HasCopyBelow(k, n, Source, Cardinality(Reachable(Source, Source.root)))
                  /\ After(k).nodes[n].title = Before(k).nodes[n].title
                  /\ After(k).nodes[n].attributes = Before(k).nodes[n].attributes
            /\ Untouched(k, (DOMAIN Before(k).nodes)
                              \ AnchorSubtrees(Before(k), Source.name))

\* C2 witness: the role tree had got a third node, and the tactic's role
\* node n1 now has a three-node copy below it under an id the tactic did not
\* have
C2_Witness ==
    /\ UpdatedColl
    /\ last.a = <<"roles", "EnterFormationRole.json">>
    /\ Cardinality(Reachable(Source, Source.root)) = 3
    /\ LET k == <<"tactics", "EnterFormationTactic.json">>
       IN  /\ After(k).nodes["n1"].children[1] \notin DOMAIN Before(k).nodes
           /\ Len(walk_tree(After(k), "n1")) = 4

\* C3: update_subtrees_in_collection leaves the entry of its source tree
\* (nodes and root) as it was, whatever the changed node.
C3_SourceTreeUntouched == UpdatedColl => After(last.a) = Source

\* C3 witness: the change came from below the role node n1 of the tactic,
\* which has a second role node of that role; the role tree was rewritten
\* and the tactic is as before
C3_Witness ==
    /\ UpdatedColl
    /\ last.a = <<"tactics", "EnterFormationTactic.json">>
    /\ last.b = "x2"
    /\ "n2" \in Anchors(Source, "EnterFormationRole")
    /\ coll["roles"] # last.pre["roles"]
    /\ After(last.a) = Source

\* the role node found at or above the changed node, "" for none
FoundRoleNode == find_role_subtree_node_above_node(Source, last.b)

NothingToPropagate ==
    \/ FoundRoleNode = ""
    \/ Source.nodes[FoundRoleNode].children = <<>>

\* C4 as stated: update_subtrees_in_collection(tree, changed_node) leaves the
\* collection as it was when no node at or above changed_node carries a role
\* attribute, and when the one found has no children.
C4_SkipsWithoutRoleSubtree == (UpdatedColl /\ NothingToPropagate) => coll = last.pre

\* C4 amended: update_subtrees_in_collection(tree, changed_node) for a tree
\* that is not in the category roles leaves the collection as it was when no
\* node at or above changed_node carries a role attribute, and when the one
\* found has no children.
C4_SkipsWithoutRoleSubtreeUnlessRole ==
    (UpdatedColl /\ last.a[1] # "roles" /\ NothingToPropagate) => coll = last.pre

\* C4 witness: the changed node is a role node without children that was
\* added to the strategy; the collection is as before
C4_Witness ==
    /\ UpdatedColl
    /\ last.a = <<"strategies", "DemoTeamTwenteStrategy.json">>
    /\ FoundRoleNode = last.b
    /\ Source.nodes[last.b].children = <<>>
    /\ coll = last.pre

\* ---------------------------------------------------- verification claims
\* some node reachable from the root lies on a cycle of children
CycleBelowRoot(t) == \E x \in Reachable(t, t.root) : x \in ReachableFromKids(t, x)

\* number of entries of the list s that equal x
Count(s, x) == Cardinality({i \in 1..Len(s) : s[i] = x})

\* C8: contains_cycles(tree, {}) returns at least one violation exactly when
\* a node reachable from the root has a child that is itself or one of its
\* ancestors on the path from the root, and none otherwise, also when a node
\* is reachable through two parents.
C8_CyclesFoundExactly ==
    last.op = "contains_cycles" => ((Len(last.ret) >= 1) <=> CycleBelowRoot(tree))

\* C8 witness: c is a child of both a and b, all reachable, no cycle, and
\* nothing is reported
C8_Witness ==
    /\ last.op = "contains_cycles"
    /\ tree.root = "a"
    /\ tree.nodes["a"].children = <<"b", "c">>
    /\ tree.nodes["b"].children = <<"c">>
    /\ tree.nodes["c"].children = <<>>
    /\ last.ret = <<>>

\* the tree with id c appended to the children of node p
WithChild(t, p, c) == [t EXCEPT !.nodes[p] = add_child(@, c)]

\* C9: has_unconnected_nodes returns exactly one violation for each node not
\* reachable from the root and none for a reachable node; once an
\* unreachable node is appended to the children of a reachable node it is
\* not reported any more.
C9_UnconnectedReportedOnce ==
    last.op = "has_unconnected_nodes" =>
        /\ \A x \in DOMAIN tree.nodes :
              Count(last.ret, x) = IF x \in Reachable(tree, tree.root) THEN 0 ELSE 1
        /\ Range(last.ret) \subseteq DOMAIN tree.nodes
        /\ \A u \in Range(last.ret), p \in Reachable(tree, tree.root) :
              ~InSeq(u, has_unconnected_nodes(WithChild(tree, p, u)))

\* C9 witness: b lists c, but neither is reachable from the root a; both
\* are reported
C9_Witness ==
    /\ last.op = "has_unconnected_nodes"
    /\ tree.root = "a"
    /\ tree.nodes["a"].children = <<>>
    /\ tree.nodes["b"].children = <<"c">>
    /\ Len(last.ret) = 2

\* C10: walk_tree returns the nodes reachable from start, start included,
\* each once; a child id that resolves to no node is skipped; and the size
\* of the result is the same after a dangling id or a self-reference has
\* been appended to the children of any node.
C10_WalkReachableOnce ==
    last.op = "walk_tree" =>
        /\ Range(last.ret) = Reachable(tree, last.a)
        /\ Len(last.ret) = Cardinality(Range(last.ret))
        /\ \A p \in DOMAIN tree.nodes :
              /\ Len(walk_tree(WithChild(tree, p, NoSuchId), last.a)) = Len(last.ret)
              /\ Len(walk_tree(WithChild(tree, p, p), last.a)) = Len(last.ret)

\* C10 witness: a walk from a over a cycle a -> b -> a with a dangling child
\* and c under both a and b returns the three nodes
C10_Witness ==
    /\ last.op = "walk_tree"
    /\ last.a = "a"
    /\ tree.nodes["a"].children = <<"b", "c">>
    /\ tree.nodes["b"].children = <<"a", "c">>
    /\ tree.nodes["c"].children = <<NoSuchId, "c">>
    /\ Len(last.ret) = 3

\* ------------------------------------------------------------- termination
\* some node below start, or start itself, reaches itself by children
CycleFrom(t, start) == \E x \in Reachable(t, start) : x \in ReachableFromKids(t, x)

StrictlyBelow(t, id) == ReachableFromKids(t, id) \ {id}

\* the properties of a node, none when it has no "properties" attribute
PropertiesOf(n) ==
    IF "properties" \in DOMAIN n.attributes THEN n.attributes["properties"] ELSE EmptyMap

\* two nodes that differ in their "properties" attribute at most
SameButProperties(n1, n0) ==
    /\ n1.title = n0.title
    /\ n1.children = n0.children
    /\ (DOMAIN n1.attributes) \ {"properties"} = (DOMAIN n0.attributes) \ {"properties"}
    /\ \A k \in (DOMAIN n0.attributes) \ {"properties"} : n1.attributes[k] = n0.attributes[k]

\* C13: after propagate_role(id, v) with id present, every node strictly
\* below id has properties["ROLE"] = v and its other properties, attributes,
\* title and children as before; node id and the nodes outside the subtree
\* are as before.
C13_RoleOnNodesBelowOnly ==
    (last.op = "propagate_role" /\ last.a \in DOMAIN last.pre.nodes) =>
        /\ DOMAIN tree.nodes = DOMAIN last.pre.nodes
        /\ tree.root = last.pre.root
        /\ \A x \in DOMAIN tree.nodes :
              IF x \in StrictlyBelow(last.pre, last.a)
              THEN LET p1 == PropertiesOf(tree.nodes[x])
                       p0 == PropertiesOf(last.pre.nodes[x])
                   IN  /\ SameButProperties(tree.nodes[x], last.pre.nodes[x])
                       /\ DOMAIN p1 = (DOMAIN p0) \cup {"ROLE"}
                       /\ p1["ROLE"] = last.b
                       /\ \A k \in (DOMAIN p0) \ {"ROLE"} : p1[k] = p0[k]
              ELSE tree.nodes[x] = last.pre.nodes[x]

\* propagate_role("b", "t") on the tree whose node c has the property p:
\* c is below b and has both properties, a is outside
C13_Witness ==
    /\ last.op = "propagate_role"
    /\ last.a = "b"
    /\ "c" \in StrictlyBelow(last.pre, "b")
    /\ "a" \in (DOMAIN last.pre.nodes) \ StrictlyBelow(last.pre, "b")
    /\ "p" \in DOMAIN PropertiesOf(last.pre.nodes["c"])
    /\ DOMAIN PropertiesOf(tree.nodes["c"]) = {"p", "ROLE"}

\* C14: after remove_propagation(id) with id present, every node strictly
\* below id is without the ROLE property and has its other properties,
\* attributes, title and children as before; node id and the nodes outside
\* the subtree are as before.  So after propagate_role(id, v) followed by
\* remove_propagation(id) no node below id carries ROLE.
C14_RoleOffNodesBelowOnly ==
    (last.op = "remove_propagation" /\ last.a \in DOMAIN last.pre.nodes) =>
        /\ DOMAIN tree.nodes = DOMAIN last.pre.nodes
        /\ tree.root = last.pre.root
        /\ \A x \in DOMAIN tree.nodes :
              IF x \in StrictlyBelow(last.pre, last.a)
              THEN LET p1 == PropertiesOf(tree.nodes[x])
                       p0 == PropertiesOf(last.pre.nodes[x])
                   IN  /\ SameButProperties(tree.nodes[x], last.pre.nodes[x])
                       /\ DOMAIN p1 = (DOMAIN p0) \ {"ROLE"}
                       /\ \A k \in DOMAIN p1 : p1[k] = p0[k]
              ELSE tree.nodes[x] = last.pre.nodes[x]
        /\ \A x \in StrictlyBelow(tree, last.a) :
              "ROLE" \notin DOMAIN PropertiesOf(tree.nodes[x])

\* remove_propagation after propagate_role: c had ROLE and p, and keeps p
C14_Witness ==
    /\ last.op = "remove_propagation"
    /\ last.a \in {"a", "b"}
    /\ "c" \in StrictlyBelow(last.pre, last.a)
    /\ DOMAIN PropertiesOf(last.pre.nodes["c"]) = {"p", "ROLE"}
    /\ "ROLE" \in DOMAIN PropertiesOf(last.pre.nodes["d"])
    /\ DOMAIN PropertiesOf(tree.nodes["c"]) = {"p"}

\* C15: remove_node(node) and remove_node_by_id(id) return True exactly when
\* the id was a key of nodes; afterwards the id is no key of nodes, no other
\* key is gone, root is "" if the removed id was the root and is as before
\* otherwise; when the id was no key they leave the tree unchanged.
C15_RemoveNodeReturnsPresence ==
    (last.op \in {"remove_node", "remove_node_by_id"}) =>
        LET was == last.a \in DOMAIN last.pre.nodes
        IN  /\ last.ret = was
            /\ last.a \notin DOMAIN tree.nodes
            /\ DOMAIN tree.nodes = (DOMAIN last.pre.nodes) \ {last.a}
            /\ tree.root = IF was /\ last.pre.root = last.a THEN "" ELSE last.pre.root
            /\ ~was => tree = last.pre

\* the root has been removed with remove_node
C15_Witness ==
    /\ last.op = "remove_node"
    /\ last.a = last.pre.root
    /\ last.a \in DOMAIN last.pre.nodes
    /\ last.ret = TRUE
    /\ tree.root = ""
    /\ Cardinality(DOMAIN tree.nodes) >= 3

\* C16: after remove_subtree(id) with id present, exactly the nodes strictly
\* below id are gone, node id is kept with an empty children list, and root
\* and every node outside the subtree are as before.
C16_RemoveSubtreeRemovesBelow ==
    (last.op = "remove_subtree" /\ last.a \in DOMAIN last.pre.nodes) =>
        /\ DOMAIN tree.nodes = (DOMAIN last.pre.nodes) \ StrictlyBelow(last.pre, last.a)
        /\ tree.nodes[last.a] = [last.pre.nodes[last.a] EXCEPT !.children = <<>>]
        /\ tree.root = last.pre.root
        /\ tree.name = last.pre.name
        /\ \A x \in (DOMAIN tree.nodes) \ {last.a} : tree.nodes[x] = last.pre.nodes[x]

\* remove_subtree("b"): c and d are gone, a and b stay
C16_Witness ==
    /\ last.op = "remove_subtree"
    /\ last.a = "b"
    /\ StrictlyBelow(last.pre, "b") = {"c", "d"}
    /\ DOMAIN tree.nodes = (DOMAIN last.pre.nodes) \ {"c", "d"}
    /\ "a" \in DOMAIN tree.nodes

\* C17: after add_subtree(other_tree, parent_id, child_id) with parent_id in
\* this tree and child_id in other_tree, this tree has the nodes it had and
\* the nodes of other_tree's subtree at child_id, these under the ids, with
\* the titles, attributes and children they have in other_tree; child_id is
\* the last child of parent_id, after the children parent_id had; no other
\* node of other_tree is copied, no other node of this tree is changed, and
\* other_tree is as it was.
C17_SubtreeCopiedUnderItsIds ==
    (/\ last.op = "add_subtree"
     /\ last.a \in DOMAIN last.pre.nodes
     /\ last.b \in DOMAIN other.nodes) =>
        LET copied == Reachable(other, last.b)
            kids == tree.nodes[last.a].children
        IN  /\ DOMAIN tree.nodes = (DOMAIN last.pre.nodes) \cup copied
            /\ \A x \in copied \ {last.a} : tree.nodes[x] = other.nodes[x]
            /\ last.a \in copied => tree.nodes[last.a].title = other.nodes[last.a].title
            /\ kids # <<>> /\ kids[Len(kids)] = last.b
            /\ last.a \notin copied =>
                  /\ kids = Append(last.pre.nodes[last.a].children, last.b)
                  /\ SameButProperties([tree.nodes[last.a] EXCEPT !.children = <<>>],
                                       [last.pre.nodes[last.a] EXCEPT !.children = <<>>])
            /\ \A x \in (DOMAIN last.pre.nodes) \ (copied \cup {last.a}) :
                  tree.nodes[x] = last.pre.nodes[x]
            /\ tree.root = last.pre.root
            /\ other \in {SimpleTree, SimpleTree2}

\* the subtree at the child of the two-node tree is added below b: node 2 is
\* copied, node 1 is not
C17_Witness ==
    /\ last.op = "add_subtree"
    /\ last.a = "b"
    /\ last.b = "2"
    /\ other = SimpleTree2
    /\ "2" \in DOMAIN tree.nodes
    /\ "1" \notin DOMAIN tree.nodes
    /\ tree.nodes["b"].children = Append(last.pre.nodes["b"].children, "2")

\* ------------------------------------------------------------ Node removals
\* the removal that was called last had nothing to remove
AbsentTarget ==
    \/ last.op = "remove_child" /\ ~InSeq(last.a, last.pre.children)
    \/ last.op = "remove_attribute" /\ last.a \notin DOMAIN last.pre.attributes
    \/ last.op = "remove_property" /\ last.a \notin DOMAIN PropertiesOf(last.pre)

\* the removal that was called last, called once more
RemovedAgain ==
    CASE last.op = "remove_child" -> remove_child(nodeobj, last.a)
      [] last.op = "remove_attribute" -> remove_attribute(nodeobj, last.a)
      [] last.op = "remove_property" -> remove_property(nodeobj, last.a)
      [] OTHER -> nodeobj

FoundRoleNodes == last.op = "find_role_subtree_nodes_if_exist"

\* the tree that was searched
Searched == coll[last.a[1]][last.a[2]]

\* C20 as stated: find_role_subtree_nodes_if_exist(role_name) returns, for
\* every node whose role attribute is role_name, the nodes of the subtree
\* attached below that node, and the empty list when there is no such node.
C20_ReturnsNodesBelowAnchors ==
    FoundRoleNodes =>
        Range(last.ret) = UNION {StrictlyBelow(Searched, n) : n \in Anchors(Searched, last.b)}

\* C20 amended: find_role_subtree_nodes_if_exist(role_name) returns the nodes
\* whose role attribute is role_name themselves, each once, and the empty
\* list when there is no such node; a node below such a node is in the
\* result only if it carries the role itself.
C20_ReturnsAnchors ==
    FoundRoleNodes =>
        /\ Range(last.ret) = Anchors(Searched, last.b)
        /\ Len(last.ret) = Cardinality(Anchors(Searched, last.b))

\* the two role nodes of EnterFormationTactic are returned, the nodes below
\* them are not
C20_Witness ==
    /\ FoundRoleNodes
    /\ last.a = <<"tactics", "EnterFormationTactic.json">>
    /\ last.b = "EnterFormationRole"
    /\ {"n1", "n2"} \subseteq Range(last.ret)
    /\ StrictlyBelow(Searched, "n1") # {}
    /\ StrictlyBelow(Searched, "n1") \cap Range(last.ret) = {}

\* ---------------------------------------------------------------- documents
\* the Node object in hand is what Node.from_json makes of the document d
ParsedNode(d) ==
    LET r == Node_from_json(d)
    IN  /\ r.ok
        /\ nodeobj = [id |-> r.id, title |-> r.node.title,
                      attributes |-> r.node.attributes, children |-> r.node.children]

\* the Tree in hand is what Tree.from_json makes of the document d
ParsedTree(d) == Tree_from_json(d) = [ok |-> TRUE, tree |-> tree]

\* the node entries of a tree document that has been parsed
EntriesOf(d) == d["data"].o["trees"].a[1].o["nodes"].a

\* a node document follows the omission policy: no attributes key for an
\* empty object, no children key for an empty list
OmitsEmpty(d, node) ==
    /\ "attributes" \in DOMAIN d <=> node.attributes # EmptyMap
    /\ "children" \in DOMAIN d <=> node.children # <<>>

\* create_json writes attributes and children of a node only when they are
\* not empty, and one entry in trees
EmitsMinimalKeys ==
    /\ last.op = "Node.create_json" => OmitsEmpty(doc, nodeobj)
    /\ last.op = "Tree.create_json" =>
          /\ Len(doc["data"].o["trees"].a) = 1
          /\ \A i \in 1..Len(EntriesOf(doc)) :
                OmitsEmpty(EntriesOf(doc)[i].o, tree.nodes[EntriesOf(doc)[i].o["id"].s])

MinimalNode(d) ==
    /\ DOMAIN d \subseteq {"id", "title", "attributes", "children"}
    /\ "attributes" \in DOMAIN d => d["attributes"].o # EmptyMap
    /\ "children" \in DOMAIN d => d["children"].a # <<>>

\* a tree document whose node entries are minimal and have different ids
MinimalTree(d) ==
    /\ \A i \in 1..Len(EntriesOf(d)) : MinimalNode(EntriesOf(d)[i].o)
    /\ \A i, j \in 1..Len(EntriesOf(d)) :
          i # j => EntriesOf(d)[i].o["id"] # EntriesOf(d)[j].o["id"]

BadString(m, k) == k \notin DOMAIN m \/ m[k].t # "string"

\* a node entry that Node parsing rejects
MalformedNode(d) ==
    \/ BadString(d, "id")
    \/ BadString(d, "title")
    \/ /\ "children" \in DOMAIN d
       /\ \/ d["children"].t # "array"
          \/ \E i \in 1..Len(d["children"].a) : d["children"].a[i].t # "string"

\* a tree document with one of the defects of the list
MalformedTree(d) ==
    \/ "data" \notin DOMAIN d
    \/ BadString(d["data"].o, "name")
    \/ BadString(d["data"].o, "title")
    \/ "trees" \notin DOMAIN d["data"].o
    \/ Len(d["data"].o["trees"].a) # 1
    \/ d["data"].o["trees"].a[1].t # "object"
    \/ "nodes" \notin DOMAIN d["data"].o["trees"].a[1].o
    \/ EntriesOf(d) = <<>>
    \/ BadString(d["data"].o["trees"].a[1].o, "root")
    \/ \E i \in 1..Len(EntriesOf(d)) : MalformedNode(EntriesOf(d)[i].o)

\* C18: Tree.from_json raises, and no Tree comes out of it, when the data
\* wrapper is missing; name or title is missing or no string; trees is
\* missing, empty, has more than one entry or an entry that is no object;
\* nodes is missing or empty; root is missing or no string; or a node entry
\* has no id or title, an id or title that is no string, or children that
\* are no list of strings.  It succeeds on every other document.
C18_MalformedDocumentsFail ==
    last.op = "Tree.from_json" =>
        /\ last.ret = ~MalformedTree(doc)
        /\ ~last.ret => tree = NoTree

\* a document with two entries in trees, each of them well-formed, has been
\* rejected
C18_Witness ==
    /\ last.op = "Tree.from_json"
    /\ last.ret = FALSE
    /\ tree = NoTree
    /\ "data" \in DOMAIN doc
    /\ ~BadString(doc["data"].o, "name")
    /\ ~BadString(doc["data"].o, "title")
    /\ "trees" \in DOMAIN doc["data"].o
    /\ Len(doc["data"].o["trees"].a) = 2
    /\ ~MalformedTree([doc EXCEPT !["data"].o["trees"].a = <<@[1]>>])

\* ------------------------------------------------- removing node by node
\* C24 as stated: for a tree whose nodes are all reachable from root, after
\* add_node of an unconnected node with one child id that resolves to no
\* node, remove_node_and_children_by_id of that node returns False, and
\* remove_node_and_children_by_id(root) then returns True and leaves root
\* '' and no node.
C24_EveryReachableTreeIsEmptied ==
    /\ steps >= 2 => run.ok = FALSE
    /\ run.done => last.ret = TRUE /\ tree.root = "" /\ DOMAIN tree.nodes = {}

\* number of times id is listed as a child in t
TimesListed(t, id) ==
    Cardinality({<<p, i>> \in (DOMAIN t.nodes) \X (1..MaxChildren + 1) :
                    i <= Len(t.nodes[p].children) /\ t.nodes[p].children[i] = id})

\* every child id resolves, the root is the child of no node and every
\* other node is listed as a child once
SingleParents(t) ==
    /\ \A p \in DOMAIN t.nodes : Range(t.nodes[p].children) \subseteq DOMAIN t.nodes
    /\ \A x \in DOMAIN t.nodes : TimesListed(t, x) = IF x = t.root THEN 0 ELSE 1

\* C24 amended: the same sequence, for a tree whose nodes are all reachable
\* from root, whose child ids all resolve, whose root is the child of no
\* node and whose other nodes are each listed as a child exactly once.
C24_EveryProperTreeIsEmptied ==
    SingleParents(other) =>
        /\ steps >= 2 => run.ok = FALSE
        /\ run.done => last.ret = TRUE /\ tree.root = "" /\ DOMAIN tree.nodes = {}

\* the three calls have been made on a tree with a node of two children
C24_Witness ==
    /\ run.op = "remove_all"
    /\ run.done
    /\ SingleParents(other)
    /\ \E x \in DOMAIN other.nodes : Len(other.nodes[x].children) = 2
    /\ run.ok = FALSE
    /\ last.ret = TRUE
    /\ DOMAIN tree.nodes = {}

\* ------------------------------------------------- update_subtree, twice
\* titles and child order at and below id, without the ids: the title of
\* the node and the shapes of its children that resolve, in their order
RECURSIVE Shape(_, _)
Shape(t, id) ==
    [title |-> t.nodes[id].title,
     kids |-> LET cs == SelectSeq(t.nodes[id].children, LAMBDA c : c \in DOMAIN t.nodes)
              IN  [i \in 1..Len(cs) |-> Shape(t, cs[i])]]

\* the call that is being made is the update_subtree that was just made,
\* with the same target and source, both of which resolve
UpdatedAgain ==
    /\ Updated
    /\ last'.op = "update_subtree"
    /\ last'.a = last.a
    /\ last'.b = last.b

\* C25: a second update_subtree(S, t) with the same arguments leaves the
\* node count and the titles and child order at and below t as they were
\* after the first; only the generated ids differ.
C25_SecondUpdateKeepsShape ==
    [][UpdatedAgain =>
          /\ Cardinality(DOMAIN tree'.nodes) = Cardinality(DOMAIN tree.nodes)
          /\ Shape(tree', last.a) = Shape(tree, last.a)]_vars

\* the 4-node tree has been updated twice at its root from the two-node
\* source: the first call put g1 below a, the second generated two more ids
C25_Witness ==
    /\ Updated
    /\ other = SimpleTree2
    /\ last.a = "a"
    /\ last.b = "1"
    /\ last.pre.nodes["a"].children = <<"g1">>
    /\ idgen = 4
    /\ tree.nodes["a"].children = <<"g3">>
    /\ Cardinality(DOMAIN tree.nodes) = 3

\* ------------------------------------- from a role subtree to the role tree
\* the entry of the role tree named role_name, and whether there is one
RoleKey(role_name) == <<"roles", role_name \o ".json">>
HasRoleTree(role_name) ==
    /\ "roles" \in DOMAIN coll
    /\ role_name \o ".json" \in DOMAIN coll["roles"]

\* the nodes of the source tree that carry a role attribute and have the
\* changed node at or below them
AnchorsAbove == {n \in DOMAIN Source.nodes : has_role(Source, n) /\ last.b \in Reachable(Source, n)}

\* C26 as stated: when changed_node lies in the subtree of a node N with
\* role R of a tree T that is not a role, update_subtrees_in_collection(T,
\* changed_node) makes the role tree R have the node count, the titles and
\* the child structure of what is below N in T.
C26_RoleTreeIsWhatIsBelowAnchor ==
    (UpdatedColl /\ last.a[1] # "roles") =>
        \A n \in AnchorsAbove :
            LET r == Source.nodes[n].attributes["role"]
            IN  /\ HasRoleTree(r)
                /\ After(RoleKey(r)).root \in DOMAIN After(RoleKey(r)).nodes
                /\ Cardinality(DOMAIN After(RoleKey(r)).nodes)
                      = Cardinality(ReachableFromKids(Source, n) \ {n})
                /\ Shape(Source, n).kids
                      = <<Shape(After(RoleKey(r)), After(RoleKey(r)).root)>>

\* C26 amended: when N is the first node with a role attribute at or above
\* changed_node in a tree T that is not a role, R is its role and N has
\* children, update_subtrees_in_collection(T, changed_node) makes the role
\* tree R have the node count, the titles and the child structure of the
\* subtree of T at the first child of N.
C26_RoleTreeIsFirstChildSubtree ==
    (UpdatedColl /\ last.a[1] # "roles" /\ ~NothingToPropagate) =>
        LET n == FoundRoleNode
            top == Source.nodes[n].children[1]
            r == Source.nodes[n].attributes["role"]
        IN  /\ HasRoleTree(r)
            /\ After(RoleKey(r)).name = r
            /\ After(RoleKey(r)).root \in DOMAIN After(RoleKey(r)).nodes
            /\ Cardinality(DOMAIN After(RoleKey(r)).nodes)
                  = Cardinality(Reachable(Source, top))
            /\ Shape(After(RoleKey(r)), After(RoleKey(r)).root) = Shape(Source, top)

\* test_update_subtrees_in_collection_from_subtree: the title of x1, below
\* the role node n1 of the tactic, was changed and the call was made for x2;
\* the role tree has two nodes and its root has the new title
C26_Witness ==
    /\ UpdatedColl
    /\ last.a = <<"tactics", "EnterFormationTactic.json">>
    /\ last.b = "x2"
    /\ FoundRoleNode = "n1"
    /\ Source.nodes["x1"].title = "TestChange"
    /\ LET rt == After(RoleKey("EnterFormationRole"))
       IN  /\ Cardinality(DOMAIN rt.nodes) = 2
           /\ rt.nodes[rt.root].title = "TestChange"
           /\ Len(rt.nodes[rt.root].children) = 1
           /\ rt.nodes[rt.nodes[rt.root].children[1]].title = "EnterFormation"

\* ------------------------------------------- well-formed trees stay so
\* the root resolves, every child id resolves, no node is below itself and
\* every node is reachable from the root
RootedAcyclic(t) ==
    /\ t.root \in DOMAIN t.nodes
    /\ \A p \in DOMAIN t.nodes : Range(t.nodes[p].children) \subseteq DOMAIN t.nodes
    /\ \A x \in DOMAIN t.nodes : x \notin ReachableFromKids(t, x)
    /\ Reachable(t, t.root) = DOMAIN t.nodes

\* no node is listed as a child by two different nodes
OneParent(t) ==
    \A x \in DOMAIN t.nodes :
        Cardinality({p \in DOMAIN t.nodes : InSeq(x, t.nodes[p].children)}) <= 1

\* remove_subtree or update_subtree has just been called
Replaced == last.op \in {"remove_subtree", "update_subtree"}

\* C27 as stated: from a tree whose root resolves, whose child ids all
\* resolve, that has no cycle and no node unreachable from the root,
\* remove_subtree(id) and update_subtree(S, t, s) with such an S yield a tree
\* with no dangling child id, no cycle, no unreachable node and no node
\* listed as a child of two different parents.
C27_ReplacingKeepsWellFormed ==
    (Replaced /\ RootedAcyclic(last.pre) /\ RootedAcyclic(other)) =>
        RootedAcyclic(tree) /\ OneParent(tree)

\* C27 amended: the same, from a tree, and with an S, in which moreover no
\* node is listed as a child of two different parents.
C27_ReplacingKeepsProperTree ==
    (/\ Replaced
     /\ RootedAcyclic(last.pre) /\ OneParent(last.pre)
     /\ RootedAcyclic(other) /\ OneParent(other)) =>
        RootedAcyclic(tree) /\ OneParent(tree)

\* the subtree below b of the 4-node tree, a proper tree, has been replaced
\* by a copy of the two-node source, and the result is a proper tree
C27_Witness ==
    /\ Updated
    /\ last.pre = DemoTeamTwenteStrategy
    /\ last.a = "b"
    /\ other = SimpleTree2
    /\ last.b = "1"
    /\ Cardinality(DOMAIN tree.nodes) = 4
    /\ RootedAcyclic(tree)
    /\ OneParent(tree)

\* ------------------------------------------------------ collapsing upwards
\* collapse_upwards has just been called on the node last.a
CollapsedUpwards == last.op = "collapse_upwards"

\* what collapse_upwards leaves: the parent item and the top-level item the
\* node had are in collapse_data, the node has no parent item and the
\* recorded top-level item is hidden
CollapseRecorded ==
    CollapsedUpwards =>
        /\ scene.collapse_data[last.a].set
        /\ scene.collapse_data[last.a].parent = last.pre.parent[last.a]
        /\ scene.collapse_data[last.a].top_level_item = topLevelItem(last.pre, last.a)
        /\ scene.parent[last.a] = None
        /\ ~scene.visible[scene.collapse_data[last.a].top_level_item]

\* what expand_upwards does when it is the call that follows: the parent
\* item is the recorded one, the one from before the collapse, and the
\* recorded top-level item is shown
ExpandRestores ==
    (CollapsedUpwards /\ last'.op = "expand_upwards" /\ last'.a = last.a) =>
        /\ scene'.parent[last.a] = scene.collapse_data[last.a].parent
        /\ scene'.parent[last.a] = last.pre.parent[last.a]
        /\ scene'.visible[scene.collapse_data[last.a].top_level_item]

\* C28: collapse_upwards records the parent item and the top-level item of
\* the node in collapse_data, detaches the node and hides the recorded
\* top-level item; the expand_upwards that follows sets the parent item back
\* to the recorded one and shows the top-level item, so that the node has
\* the parent item it had before the collapse.
C28_CollapseThenExpandRestoresParent ==
    []CollapseRecorded /\ [][ExpandRestores]_vars

\* n2, the child of n1 through the edge e1, was collapsed upwards, which
\* detached it and hid n1, and has been expanded: it is under e1 again and
\* n1 is visible
C28_Witness ==
    /\ last.op = "expand_upwards"
    /\ last.a = "n2"
    /\ last.pre.collapse_data["n2"].set
    /\ last.pre.collapse_data["n2"].parent = "e1"
    /\ last.pre.collapse_data["n2"].top_level_item = "n1"
    /\ last.pre.parent["n2"] = None
    /\ ~last.pre.visible["n1"]
    /\ scene.parent["n2"] = "e1"
    /\ scene.parent["e1"] = "n1"
    /\ scene.visible["n1"]

\* ------------------------------------------------------ loading a directory
\* the file f of the directory cat holds a valid tree document, has the
\* extension .json and is not hidden
LoadableFile(cat, f) ==
    /\ ~starts_with(f, ".")
    /\ ends_with(f, ".json")
    /\ Tree_from_json(disk[cat][f]).ok

\* the collection holds, in the category cat, the trees of the loadable
\* files of the directory cat and nothing else
CategoryLoaded(cat) ==
    /\ cat \in DOMAIN coll
    /\ DOMAIN coll[cat] = {f \in DOMAIN disk[cat] : LoadableFile(cat, f)}
    /\ \A f \in DOMAIN coll[cat] : coll[cat][f] = Tree_from_json(disk[cat][f]).tree

\* C23 as stated: from_path / build_collection over a directory yields the
\* collection of exactly the trees of the files that are not hidden, have
\* the extension, are in a category directory that is not hidden and parse;
\* an invalid file raises nothing and keeps no other file from being loaded.
C23_LoadsAllButHidden ==
    last.op = "from_path" =>
        /\ \A cat \in DOMAIN disk : ~starts_with(cat, ".") => CategoryLoaded(cat)
        /\ \A cat \in DOMAIN coll : cat \in DOMAIN disk /\ ~starts_with(cat, ".")

\* C23 amended: the same, for the category directories whose name starts
\* with neither "." nor "_".
C23_LoadsAllButHiddenAndUnderscore ==
    last.op = "from_path" =>
        /\ \A cat \in DOMAIN disk :
              (~starts_with(cat, ".") /\ ~starts_with(cat, "_")) => CategoryLoaded(cat)
        /\ \A cat \in DOMAIN coll :
              cat \in DOMAIN disk /\ ~starts_with(cat, ".") /\ ~starts_with(cat, "_")

\* test_from_path: roles holds Assister.json and the invalid InvalidRole.json,
\* tactics holds a valid file; the collection has Assister and the tactic
\* and not InvalidRole
C23_Witness ==
    /\ last.op = "from_path"
    /\ <<"InvalidRole", ".json">> \in DOMAIN disk[<<"roles">>]
    /\ ~Tree_from_json(disk[<<"roles">>][<<"InvalidRole", ".json">>]).ok
    /\ <<"tactics">> \in DOMAIN coll
    /\ DOMAIN coll[<<"roles">>] = {<<"Assister", ".json">>}
    /\ DOMAIN coll[<<"tactics">>] = {<<"Assister", ".json">>}
    /\ coll[<<"roles">>][<<"Assister", ".json">>].name = "Assister"

\* ------------------------------------------------------------- verify_tree
\* a decorator without exactly one child, or a composite without children
BrokenArity(t) ==
    \E x \in DOMAIN t.nodes :
        \/ t.nodes[x].title \in Decorators /\ Len(t.nodes[x].children) # 1
        \/ t.nodes[x].title \in DOMAIN Composites /\ Len(t.nodes[x].children) = 0

\* every decorator has one child, every composite the number it takes
ProperArity(t) ==
    \A x \in DOMAIN t.nodes :
        /\ t.nodes[x].title \in Decorators => Len(t.nodes[x].children) = 1
        /\ t.nodes[x].title \in DOMAIN Composites =>
              Len(t.nodes[x].children) >= Composites[t.nodes[x].title]

C22_InvalidRootReported ==
    (/\ \/ last.op = "verify_tree"
        \/ last.op = "write_tree" /\ last.a = "verify"
     /\ (tree.root = "" \/ tree.root \notin DOMAIN tree.nodes))
        => Len(last.ret) >= 1

\* test_incorrect_root_nodes_by_writing: write_tree with verify on a tree
\* without nodes and root, whose only violation is the root
C22_Witness ==
    /\ last.op = "write_tree"
    /\ last.a = "verify"
    /\ tree.root = ""
    /\ DOMAIN tree.nodes = {}
    /\ last.ret = <<[kind |-> "root", node |-> ""]>>

====
